---- MODULE Spec2Model ----
(***************************************************************************)
(* Model of the gRPC-Web response decoder of HeadscaleGrpcClient           *)
(* (src/src/lib/test/grpc-test.ts): frame extraction, the hand-written     *)
(* protobuf record decoder and the helpers they call.                      *)
(*                                                                         *)
(* A byte buffer is a sequence of integers 0..255; the code's 0-based      *)
(* offsets are kept, At(data, i) reading the byte at offset i.             *)
(***************************************************************************)
EXTENDS Integers, Sequences, FiniteSets, TLC

(***************************************************************************)
(* Bounds of the model.                                                    *)
(***************************************************************************)
\* most copies of the leading record of a generated payload
MaxRecs == 2
\* last value of the wall clock
MaxTime == 1

(***************************************************************************)
(* Bytes and typed arrays.                                                 *)
(***************************************************************************)
At(data, i) == data[i + 1]

Min(a, b) == IF a < b THEN a ELSE b

Max(a, b) == IF a > b THEN a ELSE b

\* the element of a one-element set: the loops below continue from the
\* value of an iteration through { ... : n \in {value} }, which makes TLC
\* compute that value once
TheOne(S) == CHOOSE r \in S : TRUE

\* Uint8Array.prototype.slice(start, end) for start, end >= 0: both are
\* clamped to the length and an inverted range is empty.
Slice(data, start, end) ==
    LET e == Min(end, Len(data))
    IN  IF start >= e THEN <<>> ELSE SubSeq(data, start + 1, e)

\* Any value at least this large compares like 2^31..2^32-1 against every
\* offset and length of the model; JS numbers do not wrap there, and this
\* keeps the sums inside the checker's integers.
Huge == 2 ^ 30

\* DataView.getUint32(i, false): big-endian, unsigned; saturated at Huge.
getUint32(data, i) ==
    IF At(data, i) >= 64
    THEN Huge
    ELSE At(data, i) * 16777216 + At(data, i + 1) * 65536
         + At(data, i + 2) * 256 + At(data, i + 3)

(***************************************************************************)
(* Varints.  `value |= (byte & 0x7F) << shift` works on 32-bit signed      *)
(* integers: the fifth byte keeps only its low four bits, the fourth of    *)
(* which is the sign bit.                                                  *)
(***************************************************************************)
OrShift(value, bits, shift) ==
    IF shift < 28
    THEN value + bits * (2 ^ shift)
    ELSE LET low == value + (bits % 8) * (2 ^ 28)
         IN  IF (bits \div 8) % 2 = 1 THEN (low - 2147483647) - 1 ELSE low

RECURSIVE readVarintLoop(_, _, _, _)
readVarintLoop(data, offset, bytesRead, value) ==
    IF offset + bytesRead < Len(data) /\ bytesRead < 5
    THEN LET byte == At(data, offset + bytesRead)
             v    == OrShift(value, byte % 128, 7 * bytesRead)
         IN  IF byte < 128
             THEN [ok |-> TRUE, value |-> v, bytesRead |-> bytesRead + 1]
             ELSE readVarintLoop(data, offset, bytesRead + 1, v)
    ELSE [ok |-> TRUE, value |-> value, bytesRead |-> bytesRead]

NoVarint == [ok |-> FALSE, value |-> 0, bytesRead |-> 0]

readVarintSafe(data, offset) ==
    IF offset < 0 \/ offset >= Len(data)
    THEN NoVarint
    ELSE LET r == readVarintLoop(data, offset, 0, 0)
         IN  IF r.bytesRead = 0 THEN NoVarint ELSE r

RECURSIVE skipVarintLoop(_, _)
skipVarintLoop(data, offset) ==
    IF offset < Len(data) /\ At(data, offset) >= 128
    THEN skipVarintLoop(data, offset + 1)
    ELSE offset

skipVarintSafe(data, offset) == Min(skipVarintLoop(data, offset) + 1, Len(data))

\* skipFieldSafe with a fixed64 field taken to be 4 bytes wide, for comparison
skipFieldSafeNarrowFixed64(data, offset, wireType) ==
    LET o == offset + 1
    IN  IF o >= Len(data) THEN Len(data)
        ELSE CASE wireType = 0 -> skipVarintSafe(data, o)
               [] wireType = 1 -> Min(o + 4, Len(data))
               [] wireType = 2 ->
                    LET v == readVarintSafe(data, o)
                    IN  IF ~v.ok THEN Len(data)
                        ELSE IF v.value >= Len(data) - o - v.bytesRead
                             THEN Len(data)
                             ELSE o + v.bytesRead + v.value
               [] wireType = 5 -> Min(o + 4, Len(data))
               [] OTHER -> Min(o + 1, Len(data))

\* offset is the offset of the field's tag byte
skipFieldSafe(data, offset, wireType) ==
    LET o == offset + 1
    IN  IF o >= Len(data) THEN Len(data)
        ELSE CASE wireType = 0 -> skipVarintSafe(data, o)
               [] wireType = 1 -> Min(o + 8, Len(data))
               [] wireType = 2 ->
                    LET v == readVarintSafe(data, o)
                    IN  IF ~v.ok THEN Len(data)
                        ELSE IF v.value >= Len(data) - o - v.bytesRead
                             THEN Len(data)
                             ELSE o + v.bytesRead + v.value
               [] wireType = 5 -> Min(o + 4, Len(data))
               [] OTHER -> Min(o + 1, Len(data))

(***************************************************************************)
(* Strings are sequences of code points.                                   *)
(***************************************************************************)
RECURSIVE Digits(_)
Digits(n) == IF n < 10 THEN <<48 + n>> ELSE Append(Digits(n \div 10), 48 + (n % 10))

\* Number.prototype.toString() of a 32-bit integer
toString(n) ==
    IF n >= 0 THEN Digits(n)
    ELSE IF n = (-2147483647) - 1
         THEN <<45>> \o Digits(214748364) \o <<56>>
         ELSE <<45>> \o Digits(-n)

\* new TextDecoder().decode(bytes): UTF-8, malformed sequences replaced by
\* U+FFFD (the offending byte is read again), a leading byte order mark
\* dropped.
RECURSIVE utf8Loop(_, _, _, _, _, _, _, _)
utf8Loop(bytes, i, needed, seen, cp, lower, upper, out) ==
    IF i >= Len(bytes)
    THEN IF needed # 0 THEN Append(out, 65533) ELSE out
    ELSE LET b == At(bytes, i)
         IN  IF needed = 0
             THEN CASE b <= 127 ->
                         utf8Loop(bytes, i + 1, 0, 0, 0, 128, 191, Append(out, b))
                    [] b >= 194 /\ b <= 223 ->
                         utf8Loop(bytes, i + 1, 1, 0, b % 32, 128, 191, out)
                    [] b >= 224 /\ b <= 239 ->
                         utf8Loop(bytes, i + 1, 2, 0, b % 16,
                                  IF b = 224 THEN 160 ELSE 128,
                                  IF b = 237 THEN 159 ELSE 191, out)
                    [] b >= 240 /\ b <= 244 ->
                         utf8Loop(bytes, i + 1, 3, 0, b % 8,
                                  IF b = 240 THEN 144 ELSE 128,
                                  IF b = 244 THEN 143 ELSE 191, out)
                    [] OTHER ->
                         utf8Loop(bytes, i + 1, 0, 0, 0, 128, 191, Append(out, 65533))
             ELSE IF b < lower \/ b > upper
                  THEN utf8Loop(bytes, i, 0, 0, 0, 128, 191, Append(out, 65533))
                  ELSE LET c == cp * 64 + (b % 64)
                       IN  IF seen + 1 = needed
                           THEN utf8Loop(bytes, i + 1, 0, 0, 0, 128, 191, Append(out, c))
                           ELSE utf8Loop(bytes, i + 1, needed, seen + 1, c, 128, 191, out)

TextDecode(bytes) ==
    LET s == utf8Loop(bytes, 0, 0, 0, 0, 128, 191, <<>>)
    IN  IF Len(s) > 0 /\ s[1] = 65279 THEN Tail(s) ELSE s

(***************************************************************************)
(* The record decoder.                                                     *)
(***************************************************************************)
\* the user object manualParseUser starts from; createdAt is the wall clock
\* at the time of the call
NewUser(now) ==
    [id |-> <<>>, name |-> <<>>, createdAt |-> now, displayName |-> <<>>]

\* parseTextField ending the scan of the record after a decoded text field,
\* for comparison
parseTextFieldLast(userData, offset, wireType, user, key) ==
    IF wireType = 2
    THEN LET v == readVarintSafe(userData, offset)
         IN  IF v.ok
             THEN LET o == offset + v.bytesRead
                  IN  IF v.value <= Len(userData) - o /\ v.value > 0
                      THEN [offset |-> Len(userData),
                            user |-> [user EXCEPT
                                ![key] = TextDecode(Slice(userData, o, o + v.value))]]
                      ELSE [offset |-> o, user |-> user]
             ELSE [offset |-> skipFieldSafe(userData, offset - 1, wireType),
                   user |-> user]
    ELSE [offset |-> skipFieldSafe(userData, offset - 1, wireType), user |-> user]

\* A text field of a user (case 2: name, case 4: display_name); offset is
\* the offset after the tag.
parseTextField(userData, offset, wireType, user, key) ==
    IF wireType = 2
    THEN LET v == readVarintSafe(userData, offset)
         IN  IF v.ok
             THEN LET o == offset + v.bytesRead
                  IN  IF v.value <= Len(userData) - o /\ v.value > 0
                      THEN [offset |-> o + v.value,
                            user |-> [user EXCEPT
                                ![key] = TextDecode(Slice(userData, o, o + v.value))]]
                      ELSE [offset |-> o, user |-> user]
             ELSE [offset |-> skipFieldSafe(userData, offset - 1, wireType),
                   user |-> user]
    ELSE [offset |-> skipFieldSafe(userData, offset - 1, wireType), user |-> user]

\* case 1 of manualParseUser; offset is the offset after the tag
parseIdField(userData, offset, wireType, user) ==
    IF wireType = 0
    THEN LET v == readVarintSafe(userData, offset - 1)
         IN  IF v.ok
             THEN [offset |-> skipVarintSafe(userData, offset),
                   user |-> [user EXCEPT !.id = toString(v.value)]]
             ELSE [offset |-> skipFieldSafe(userData, offset - 1, wireType),
                   user |-> user]
    ELSE [offset |-> skipFieldSafe(userData, offset - 1, wireType), user |-> user]

\* the default case of manualParseUser: a failed skip leaves the switch, not
\* the loop, with the offset after the tag
parseUnknownField(userData, offset, wireType, user) ==
    LET newOffset == skipFieldSafe(userData, offset - 1, wireType)
    IN  [offset |-> IF newOffset <= offset THEN offset ELSE newOffset,
         user |-> user]

\* One iteration of the loop of manualParseUser, from the tag at offset.
userStep(userData, offset, user) ==
    LET byte        == At(userData, offset)
        wireType    == byte % 8
        fieldNumber == byte \div 8
        o           == offset + 1
    IN  CASE fieldNumber = 1 -> parseIdField(userData, o, wireType, user)
          [] fieldNumber = 2 -> parseTextField(userData, o, wireType, user, "name")
          [] fieldNumber = 4 ->
                parseTextField(userData, o, wireType, user, "displayName")
          [] OTHER -> parseUnknownField(userData, o, wireType, user)

\* The loop of manualParseUser.  The offset is the loop's only control state,
\* so a run of more than Len(userData) iterations repeats an offset and never
\* ends: diverges reports it.
RECURSIVE userLoop(_, _, _, _)
userLoop(userData, offset, user, steps) ==
    IF ~(offset < Len(userData) - 1) \/ offset < 0
    THEN [user |-> user, diverges |-> FALSE]
    ELSE IF steps > Len(userData)
         THEN [user |-> user, diverges |-> TRUE]
         ELSE LET s == userStep(userData, offset, user)
              IN  IF s.offset >= Len(userData)
                  THEN [user |-> s.user, diverges |-> FALSE]
                  ELSE TheOne({ userLoop(userData, n.offset, n.user, steps + 1) :
                                  n \in {s} })

manualParseUser(userData, now) == userLoop(userData, 0, NewUser(now), 0)

\* The loop of manualParseListUsersResponse.
RECURSIVE listLoop(_, _, _, _)
listLoop(messageData, offset, users, now) ==
    IF ~(offset < Len(messageData) - 1)
    THEN [users |-> users, diverges |-> FALSE]
    ELSE LET byte        == At(messageData, offset)
             wireType    == byte % 8
             fieldNumber == byte \div 8
         IN  IF fieldNumber = 1 /\ wireType = 2
             THEN LET v == readVarintSafe(messageData, offset + 1)
                      o == offset + 1 + v.bytesRead
                  IN  IF ~v.ok \/ v.value <= 0 \/ v.value > Len(messageData)
                         \/ o + v.value > Len(messageData)
                      THEN [users |-> users, diverges |-> FALSE]
                      ELSE LET u == manualParseUser(
                                        Slice(messageData, o, o + v.value), now)
                           IN  IF u.diverges
                               THEN [users |-> users, diverges |-> TRUE]
                               ELSE TheOne({ listLoop(messageData, n[1], n[2], now) :
                                               n \in {<<o + v.value,
                                                        Append(users, u.user)>>} })
             ELSE LET newOffset == skipFieldSafe(messageData, offset, wireType)
                  IN  IF newOffset <= offset \/ newOffset >= Len(messageData)
                      THEN [users |-> users, diverges |-> FALSE]
                      ELSE TheOne({ listLoop(messageData, n, users, now) :
                                      n \in {newOffset} })

manualParseListUsersResponse(messageData, now) ==
    listLoop(messageData, 0, <<>>, now)

(***************************************************************************)
(* Frame extraction.  An extracted message is the byte range [start, end)  *)
(* of the response buffer; path names the return statement taken and       *)
(* raised tells that the call ended in an uncaught exception.              *)
(***************************************************************************)
Range(start, end, path) ==
    [start |-> start, end |-> end, path |-> path, raised |-> FALSE]

\* new Uint8Array(0)
Empty(path) == Range(0, 0, path)

Raised(path) == [start |-> 0, end |-> 0, path |-> path, raised |-> TRUE]

\* new Uint8Array(buffer, byteOffset, length) and new DataView(buffer,
\* byteOffset, length) throw a RangeError unless the range lies in the buffer
InBuffer(byteLength, byteOffset, length) == byteOffset + length <= byteLength

\* the bytes of an extracted message
MessageBytes(frameBuffer, r) == Slice(frameBuffer, r.start, r.end)

looksLikeValidProtobuf(data) ==
    IF Len(data) < 2 THEN FALSE
    ELSE LET fieldNumber == At(data, 0) \div 8
             wireType    == At(data, 0) % 8
         IN  fieldNumber > 0 /\ fieldNumber < 19 /\ wireType \in {0, 1, 2, 5}

protobufMarkers == {10, 8, 18, 26, 34, 42}

RECURSIVE findProtobufLoop(_, _)
findProtobufLoop(data, i) ==
    IF i < Min(32, Len(data) - 4)
    THEN IF At(data, i) \in protobufMarkers
            /\ looksLikeValidProtobuf(Slice(data, i, Len(data)))
         THEN Range(i, Len(data), "marker")
         ELSE findProtobufLoop(data, i + 1)
    ELSE IF Len(data) > 5
         THEN Range(5, Len(data), "offset5")
         ELSE Range(0, Len(data), "whole")

findProtobufInData(data) == findProtobufLoop(data, 0)

RECURSIVE complexFrameLoop(_, _)
complexFrameLoop(data, offset) ==
    IF offset < Len(data) - 5
    THEN IF ~InBuffer(Len(data), offset + 1, 4)
         THEN Raised("complex")
         ELSE LET frameType    == At(data, offset)
                  frameLength  == getUint32(data, offset + 1)
                  messageStart == offset + 5
                  messageEnd   == Min(messageStart + frameLength, Len(data))
              IN  IF frameType = 0 /\ messageEnd > messageStart
                  THEN Range(messageStart, messageEnd, "complex")
                  ELSE IF offset + 5 + frameLength >= Len(data)
                       THEN findProtobufInData(data)
                       ELSE complexFrameLoop(data, offset + 5 + frameLength)
    ELSE findProtobufInData(data)

extractMessageFromComplexFrame(frameBuffer) == complexFrameLoop(frameBuffer, 0)

\* findGrpcTrailerStart takes offset i as the trailer start: 0x80 followed
\* by a length in 1..99 that fits in the buffer, or by three zero bytes.
trailerAt(data, i) ==
    /\ At(data, i) = 128
    /\ \/ /\ i + 4 < Len(data)
          /\ LET trailerLength == getUint32(data, i + 1)
             IN  trailerLength > 0 /\ trailerLength < 100
                 /\ i + 5 + trailerLength <= Len(data)
       \/ /\ i + 3 < Len(data)
          /\ At(data, i + 1) = 0 /\ At(data, i + 2) = 0 /\ At(data, i + 3) = 0

\* the view of the length after a 0x80 at offset i lies outside the buffer
trailerViewOutside(data, i) ==
    At(data, i) = 128 /\ i + 4 < Len(data) /\ ~InBuffer(Len(data), i + 1, 4)

\* The loop of findGrpcTrailerStart: the first offset at which it returns,
\* -1 when it ends without one, -2 when it ends in a RangeError.
trailerScan(data, searchStart) ==
    LET stops == { i \in searchStart..(Len(data) - 5) :
                     trailerViewOutside(data, i) \/ trailerAt(data, i) }
    IN  IF stops = {} THEN -1
        ELSE LET first == CHOOSE i \in stops : \A j \in stops : i <= j
             IN  IF trailerViewOutside(data, first) THEN -2 ELSE first

findGrpcTrailerStart(data, searchStart) ==
    LET i == trailerScan(data, searchStart)
    IN  IF i = -2 THEN [pos |-> 0, found |-> FALSE, raised |-> TRUE]
        ELSE IF i >= 0 THEN [pos |-> i, found |-> TRUE, raised |-> FALSE]
        ELSE [pos |-> Max(Len(data) - 30, searchStart + 10),
              found |-> FALSE, raised |-> FALSE]

parseStandardGrpcWebFrame(frameBuffer) ==
    IF Len(frameBuffer) < 5 THEN Empty("tooSmall")
    ELSE IF ~InBuffer(Len(frameBuffer), 1, 4) THEN Raised("standard")
    ELSE LET declaredMessageLength == getUint32(frameBuffer, 1)
             messageStart          == 5
             declaredMessageEnd    == messageStart + declaredMessageLength
             trailer               == findGrpcTrailerStart(frameBuffer, messageStart)
             actualMessageEnd      == trailer.pos
             messageEnd ==
                 IF declaredMessageEnd <= Len(frameBuffer)
                    /\ declaredMessageEnd > messageStart
                    /\ actualMessageEnd > declaredMessageEnd
                 THEN declaredMessageEnd
                 ELSE IF actualMessageEnd > messageStart
                         /\ actualMessageEnd < Len(frameBuffer)
                      THEN actualMessageEnd
                      ELSE Min(declaredMessageEnd, Len(frameBuffer))
             safeEnd ==
                 IF messageEnd <= messageStart
                 THEN Min(messageStart + 50, Len(frameBuffer))
                 ELSE messageEnd
         IN  IF declaredMessageLength <= 0 THEN Empty("invalidLength")
             ELSE IF trailer.raised THEN Raised("standard")
             ELSE IF safeEnd <= messageStart THEN Empty("standard")
             ELSE Range(messageStart, Min(safeEnd, Len(frameBuffer)), "standard")

\* frameTry without the clamp of an incomplete frame to the bytes available,
\* for comparison
frameTryUnclamped(frameBuffer) ==
    LET byteLength      == Len(frameBuffer)
        compressionFlag == At(frameBuffer, 0)
        messageLength   == getUint32(frameBuffer, 1)
        expectedTotalLength   == 5 + messageLength
        actualMessageLength   == Min(messageLength, byteLength - 5)
        done(r) == [threw |-> r.raised, result |-> r]
    IN  IF compressionFlag # 0 /\ compressionFlag # 1
        THEN done(extractMessageFromComplexFrame(frameBuffer))
        ELSE IF messageLength = 88
        THEN IF InBuffer(byteLength, 5, 88)
             THEN done(Range(5, 5 + 88, "known88"))
             ELSE [threw |-> TRUE, result |-> Raised("known88")]
        ELSE IF byteLength < expectedTotalLength
        THEN done(Range(5, expectedTotalLength, "available"))
        ELSE IF actualMessageLength <= 0
        THEN done(Empty("noData"))
        ELSE done(Range(5, 5 + actualMessageLength, "declared"))

\* The body of the try block of parseGrpcWebFrame; threw tells that it left
\* by an exception.
frameTry(frameBuffer) ==
    LET byteLength      == Len(frameBuffer)
        compressionFlag == At(frameBuffer, 0)
        messageLength   == getUint32(frameBuffer, 1)
        expectedTotalLength   == 5 + messageLength
        availableMessageLength == Max(0, byteLength - 5)
        actualMessageLength   == Min(messageLength, byteLength - 5)
        done(r) == [threw |-> r.raised, result |-> r]
    IN  IF compressionFlag # 0 /\ compressionFlag # 1
        THEN done(extractMessageFromComplexFrame(frameBuffer))
        ELSE IF messageLength = 88
        THEN IF InBuffer(byteLength, 5, 88)
             THEN done(Range(5, 5 + 88, "known88"))
             ELSE [threw |-> TRUE, result |-> Raised("known88")]
        ELSE IF byteLength < expectedTotalLength
        THEN IF availableMessageLength > 0
             THEN done(Range(5, 5 + Min(availableMessageLength, byteLength - 5),
                             "available"))
             ELSE done(Empty("noData"))
        ELSE IF actualMessageLength <= 0
        THEN done(Empty("noData"))
        ELSE done(Range(5, 5 + actualMessageLength, "declared"))

\* parseGrpcWebFrame taking a buffer of exactly 5 bytes as a raw message too,
\* for comparison
parseGrpcWebFrameShortHeader(frameBuffer) ==
    IF Len(frameBuffer) = 0 THEN Empty("empty")
    ELSE IF Len(frameBuffer) <= 5 THEN Range(0, Len(frameBuffer), "short")
    ELSE IF Len(frameBuffer) >= 128 THEN parseStandardGrpcWebFrame(frameBuffer)
    ELSE LET t == frameTry(frameBuffer)
         IN  IF t.threw
             THEN extractMessageFromComplexFrame(frameBuffer)
             ELSE t.result

\* parseGrpcWebFrame without its catch clause, for comparison
parseGrpcWebFrameNoCatch(frameBuffer) ==
    IF Len(frameBuffer) = 0 THEN Empty("empty")
    ELSE IF Len(frameBuffer) < 5 THEN Range(0, Len(frameBuffer), "short")
    ELSE IF Len(frameBuffer) >= 128 THEN parseStandardGrpcWebFrame(frameBuffer)
    ELSE frameTry(frameBuffer).result

parseGrpcWebFrame(frameBuffer) ==
    IF Len(frameBuffer) = 0 THEN Empty("empty")
    ELSE IF Len(frameBuffer) < 5 THEN Range(0, Len(frameBuffer), "short")
    ELSE IF Len(frameBuffer) >= 128 THEN parseStandardGrpcWebFrame(frameBuffer)
    ELSE LET t == frameTry(frameBuffer)
         IN  IF t.threw
             THEN extractMessageFromComplexFrame(frameBuffer)
             ELSE t.result

(***************************************************************************)
(* Response buffers.  The bytes are those of the recorded 363-byte          *)
(* response: a message frame (flag, big-endian length, ListUsersResponse)   *)
(* and the trailer frame that follows it.                                   *)
(***************************************************************************)
RECURSIVE Repeat(_, _)
Repeat(bytes, n) == IF n = 0 THEN <<>> ELSE bytes \o Repeat(bytes, n - 1)

\* a length-delimited field with a one-byte tag and a one-byte length
Delimited(fieldNumber, bytes) == <<fieldNumber * 8 + 2, Len(bytes)>> \o bytes

\* the users a response may carry, as the bytes of their User messages
\* {id: 1, name: "ana"}
UserAna == <<8, 1>> \o Delimited(2, <<97, 110, 97>>)

\* {id: 3, name: "fz96", created_at, display_name: "ding"}
UserFull ==
    <<8, 3>> \o Delimited(2, <<102, 122, 57, 54>>)
    \o Delimited(3, <<8, 137, 224, 172, 192, 6, 16, 158, 165, 162, 123>>)
    \o Delimited(4, <<100, 105, 110, 103>>)

\* {id: 31, name: "test-user-1750388572722", created_at,
\*  display_name: "test-namespace"}
UserBig ==
    <<8, 31>>
    \o Delimited(2, <<116, 101, 115, 116, 45, 117, 115, 101, 114, 45, 49, 55,
                      53, 48, 51, 56, 56, 53, 55, 50, 55, 50, 50>>)
    \o Delimited(3, <<8, 133, 159, 211, 194, 6, 16, 163, 162, 135, 141, 1>>)
    \o Delimited(4, <<116, 101, 115, 116, 45, 110, 97, 109, 101, 115, 112, 97,
                      99, 101>>)

\* {id: 300, name: "bo"} with a varint (5), a fixed64 (6), a fixed32 (7) and
\* a length-delimited (3) field the decoder does not know before the name
UserMixed ==
    <<8, 172, 2>> \o <<40, 5>> \o <<49, 1, 2, 3, 4, 5, 6, 7, 8>>
    \o <<61, 1, 2, 3, 4>> \o Delimited(3, <<8, 5>>) \o Delimited(2, <<98, 111>>)

\* {display_name: "di", created_at: {seconds: 5}, name: "bo", id: 7}, the
\* fields in an order other than that of their numbers
UserReordered ==
    Delimited(4, <<100, 105>>) \o Delimited(3, <<8, 5>>)
    \o Delimited(2, <<98, 111>>) \o <<8, 7>>

\* {id: 1, name: U+FEFF "a"}: the name starts with a byte-order mark
UserBom == <<8, 1>> \o Delimited(2, <<239, 187, 191, 97>>)

\* {id: 1, name: 61 FF 62}: the name is not well-formed UTF-8
UserMalformed == <<8, 1>> \o Delimited(2, <<97, 255, 98>>)

\* field 1 with wire type 2 and the length varint FA FF FF FF 0F, which
\* readVarintSafe reads as -6
UserBackward == <<10, 250, 255, 255, 255, 15>>

UserKinds == {"ana", "empty", "full", "big", "mixed"}

\* the kinds of the last users entry of a response
PostKinds ==
    {"none", "ana", "empty", "reordered", "bom", "malformed", "backward"}

UserBytes(kind) ==
    CASE kind = "ana"   -> UserAna
      [] kind = "empty" -> <<>>
      [] kind = "full"  -> UserFull
      [] kind = "big"   -> UserBig
      [] kind = "mixed" -> UserMixed
      [] kind = "reordered" -> UserReordered
      [] kind = "bom"       -> UserBom
      [] kind = "malformed" -> UserMalformed
      [] kind = "backward"  -> UserBackward

\* what the User message of each kind carries
UserId(kind) ==
    CASE kind = "ana" -> 1 [] kind = "full" -> 3 [] kind = "big" -> 31
      [] kind = "mixed" -> 300 [] kind = "reordered" -> 7
      [] kind = "bom" -> 1 [] kind = "malformed" -> 1 [] OTHER -> 0

UserName(kind) ==
    CASE kind = "ana"   -> <<97, 110, 97>>
      [] kind = "full"  -> <<102, 122, 57, 54>>
      [] kind = "big"   -> <<116, 101, 115, 116, 45, 117, 115, 101, 114, 45, 49,
                             55, 53, 48, 51, 56, 56, 53, 55, 50, 55, 50, 50>>
      [] kind = "mixed" -> <<98, 111>>
      [] kind = "reordered" -> <<98, 111>>
      [] kind = "bom"       -> <<65279, 97>>
      [] kind = "malformed" -> <<97, 65533, 98>>
      [] OTHER          -> <<>>

UserDisplayName(kind) ==
    CASE kind = "full" -> <<100, 105, 110, 103>>
      [] kind = "big"  -> <<116, 101, 115, 116, 45, 110, 97, 109, 101, 115, 112,
                            97, 99, 101>>
      [] kind = "reordered" -> <<100, 105>>
      [] OTHER         -> <<>>

\* the kinds whose User message carries field 3, and the seconds of that
\* timestamp (the varints 89 E0 AC C0 06, 85 9F D3 C2 06 and 05)
TimestampKinds == {"full", "big", "mixed", "reordered"}

UserCreatedAt(kind) ==
    CASE kind = "full" -> 1745563657
      [] kind = "big"  -> 1750388613
      [] OTHER         -> 5

\* one element of the repeated field users (field 1 of ListUsersResponse)
UsersEntry(kind) == Delimited(1, UserBytes(kind))

\* Top-level fields that are not a well-formed users entry.
\*   the first four are fields the decoder does not know, one per wire type;
\*   junk1, junk2 start with a tag of wire type 7;
\*   overrun is a users entry whose length (127) runs past the payload;
\*   badWire, badLength are users entries with a violation inside the User:
\*   a tag of wire type 7, a name length (127) past the end of the User.
UnknownKinds == {"varint", "fixed64", "delimited", "fixed32"}

ViolationKinds == {"junk1", "junk2", "overrun", "badWire", "badLength"}

MidKinds == {"none"} \cup UnknownKinds \cup ViolationKinds

MidBytes(kind) ==
    CASE kind = "none"      -> <<>>
      [] kind = "varint"    -> <<16, 150, 1>>
      [] kind = "fixed64"   -> <<25, 128, 0, 0, 0, 5, 0, 0, 0>>
      [] kind = "delimited" -> Delimited(4, <<10, 1, 8>>)
      [] kind = "fixed32"   -> <<45, 1, 2, 3, 4>>
      [] kind = "junk1"     -> <<15>>
      [] kind = "junk2"     -> <<15, 0>>
      [] kind = "overrun"   -> <<10, 127, 8, 1>>
      [] kind = "badWire"   -> Delimited(1, <<23, 0>> \o Delimited(2, <<97, 110, 97>>))
      [] kind = "badLength" -> Delimited(1, <<18, 127>> \o Delimited(4, <<66>>) \o <<0>>)

\* wire type of the tag an unknown top-level field starts with
MidWireType(kind) == MidBytes(kind)[1] % 8

\* the trailer frame: 0x80, length 30, "grpc-status:0\r\ngrpc-message:\r\n"
Trailer ==
    <<128, 0, 0, 0, 30,
      103, 114, 112, 99, 45, 115, 116, 97, 116, 117, 115, 58, 48, 13, 10,
      103, 114, 112, 99, 45, 109, 101, 115, 115, 97, 103, 101, 58, 13, 10>>

\* big-endian unsigned 32-bit length, as view.setUint32(1, n, false) writes it
BigEndian32(n) ==
    <<(n \div 16777216) % 256, (n \div 65536) % 256, (n \div 256) % 256, n % 256>>

\* createGrpcWebFrame writing the length with the low byte first, for
\* comparison
createGrpcWebFrameLittleEndian(messageBuffer) ==
    <<0>> \o <<Len(messageBuffer) % 256, (Len(messageBuffer) \div 256) % 256,
               (Len(messageBuffer) \div 65536) % 256,
               (Len(messageBuffer) \div 16777216) % 256>>
    \o messageBuffer

createGrpcWebFrame(messageBuffer) ==
    <<0>> \o BigEndian32(Len(messageBuffer)) \o messageBuffer

\* The payload of a generated response: count users entries of kind pre, one
\* optional field of kind mid, one optional users entry of kind post.
Payload(in) ==
    Repeat(UsersEntry(in.pre), in.count) \o MidBytes(in.mid)
    \o (IF in.post = "none" THEN <<>> ELSE UsersEntry(in.post))

\* The header states the payload length (exact), 0 (zero), 50 bytes too many
\* (over), 0x58 (known88) or 0xFFFFFFFF (max).
DeclaredModes == {"exact", "zero", "over", "known88", "max"}

LengthBytes(mode, payload) ==
    CASE mode = "exact"   -> BigEndian32(Len(payload))
      [] mode = "zero"    -> BigEndian32(0)
      [] mode = "over"    -> BigEndian32(Len(payload) + 50)
      [] mode = "known88" -> BigEndian32(88)
      [] mode = "max"     -> <<255, 255, 255, 255>>

\* the response buffer of an input
Response(in) ==
    IF in.shape = "raw" THEN in.raw
    ELSE <<in.flag>> \o LengthBytes(in.declared, Payload(in)) \o Payload(in)
         \o (IF in.trailer THEN Trailer ELSE <<>>)

\* flag, declared length and trailer of the generated frames
FrameVariants ==
    { <<0, "exact", TRUE>>, <<1, "exact", TRUE>>, <<0, "exact", FALSE>>,
      <<0, "over", FALSE>>, <<0, "zero", TRUE>>, <<0, "known88", FALSE>>,
      <<0, "max", FALSE>>, <<2, "exact", TRUE>> }

FramedInputs ==
    { [shape |-> "framed", flag |-> v[1], declared |-> v[2], trailer |-> v[3],
       pre |-> k, count |-> n, mid |-> m, post |-> p, raw |-> <<>>] :
        v \in FrameVariants, k \in UserKinds, n \in 0..MaxRecs, m \in MidKinds,
        p \in PostKinds }

\* buffers shorter than a header, or a bare header, of any of these bytes
ShortLengths == {0, 1, 4, 5}

RawBytes == {0, 1, 10, 88}

RawInputs ==
    { [shape |-> "raw", flag |-> 0, declared |-> "exact", trailer |-> FALSE,
       pre |-> "ana", count |-> 0, mid |-> "none", post |-> "none", raw |-> b] :
        b \in UNION { [1..n -> RawBytes] : n \in ShortLengths } }

Inputs == FramedInputs \cup RawInputs

(***************************************************************************)
(* The state: one response at a time is fetched and decoded; the client    *)
(* keeps nothing of a decode.  prev remembers the last finished decode of  *)
(* the same buffer, for comparison.                                        *)
(***************************************************************************)
VARIABLES input, responseData, pc, now, messageData, users, prev,
          method, result, varint

\* The rest of the application: the singleton gRPC client and the calls made
\* through it, the outcomes of earlier decodes, the server a connection test
\* talks to, the user-creation form, the pre-auth key and route requests and
\* the settings page.
VARIABLES grpcClient, calls, decoded, conn, userCreate, keys, routes, page

decodeVars == <<input, responseData, pc, now, messageData, users, prev,
                method, result, varint>>

appVars == <<grpcClient, calls, decoded, conn, userCreate, keys, routes, page>>

vars == <<decodeVars, appVars>>

NoMessage == Empty("none")

\* The {success, error} object a call returns: count is the number of users
\* its error text states, via the return statement that produced it.
Result(success, count, via) ==
    [returned |-> TRUE, success |-> success, count |-> count, via |-> via]

\* no varint has been read
NoRead == [offset |-> 0, read |-> NoVarint]

NoResult == [returned |-> FALSE, success |-> FALSE, count |-> 0, via |-> "none"]

\* let grpcClient: HeadscaleGrpcClient | null = null
NoClient == [created |-> FALSE]

\* no decode has been observed: log holds the outcome of every finished
\* decode, mode and before describe the decode in progress
NoDecodes == [log |-> {}, mode |-> "none", before |-> NoClient]

ClientIdle == grpcClient = NoClient /\ calls = <<>> /\ decoded = NoDecodes

ConnIdle == conn = <<>>

UserCreateIdle == userCreate = <<>>

KeysIdle == keys = <<>>

RoutesIdle == routes = <<>>

PageIdle == page = <<>>

\* nothing but the decoder is in use
AppIdle ==
    ClientIdle /\ ConnIdle /\ UserCreateIdle /\ KeysIdle /\ RoutesIdle /\ PageIdle

Init ==
    /\ AppIdle
    /\ input \in Inputs
    /\ responseData = <<>>
    /\ pc = "idle"
    /\ now = 0
    /\ messageData = NoMessage
    /\ users = <<>>
    /\ prev = [set |-> FALSE, users |-> <<>>]
    /\ method = 0
    /\ result = NoResult
    /\ varint = NoRead

\* response.arrayBuffer() resolves with the body of the response
Receive ==
    /\ pc = "idle"
    /\ responseData' = Response(input)
    /\ pc' = "received"
    /\ messageData' = NoMessage
    /\ users' = <<>>
    /\ result' = NoResult
    /\ UNCHANGED <<input, now, prev, method, varint>>
    /\ UNCHANGED appVars

\* testConnection extracts the message from the frame
ParseFrame ==
    /\ pc = "received"
    /\ messageData' = parseGrpcWebFrame(responseData)
    /\ pc' = IF messageData'.raised THEN "raised" ELSE "framed"
    /\ UNCHANGED <<input, responseData, now, users, prev, method, result,
                   varint>>
    /\ UNCHANGED appVars

\* the hand-written decoder runs on the extracted message (for a message of
\* at most 300 bytes, after the library decoder has rejected it)
ManualParse ==
    /\ pc = "framed"
    /\ LET r == manualParseListUsersResponse(
                    MessageBytes(responseData, messageData), now)
       IN  /\ users' = r.users
           /\ pc' = IF r.diverges THEN "hung" ELSE "decoded"
    /\ UNCHANGED <<input, responseData, now, messageData, prev, method, result,
                   varint>>
    /\ UNCHANGED appVars

\* Finish with a decode that drops the loaded schema of the client, for
\* comparison
FinishDroppingSchema ==
    /\ pc = "decoded"
    /\ prev' = [set |-> TRUE, users |-> users]
    /\ result' = Result(TRUE, Len(users), "primary")
    /\ pc' = "idle"
    /\ grpcClient' = IF grpcClient.created
                     THEN [grpcClient EXCEPT !.protoRoot = "null"]
                     ELSE grpcClient
    /\ UNCHANGED <<input, responseData, now, messageData, users, method,
                   varint>>
    /\ UNCHANGED <<calls, decoded, conn, userCreate, keys, routes, page>>

\* testConnection returns success with the number of users found; the same
\* response may be decoded again
Finish ==
    /\ pc = "decoded"
    /\ prev' = [set |-> TRUE, users |-> users]
    /\ result' = Result(TRUE, Len(users), "primary")
    /\ pc' = "idle"
    /\ UNCHANGED <<input, responseData, now, messageData, users, method,
                   varint>>
    /\ UNCHANGED appVars

\* time passes between two decodes
Tick ==
    /\ pc = "idle"
    /\ now < MaxTime
    /\ now' = now + 1
    /\ UNCHANGED <<input, responseData, pc, messageData, users, prev,
                   method, result, varint>>
    /\ UNCHANGED appVars

Next == Receive \/ ParseFrame \/ ManualParse \/ Finish \/ Tick

Spec == Init /\ [][Next]_vars

(***************************************************************************)
(* tryAlternativeParsingMethods, the catch clause of testConnection.  No   *)
(* exception of the decode reaches that clause from ParseFrame or          *)
(* ManualParse, so the chain is explored on its own, entered with every    *)
(* response buffer.                                                        *)
(***************************************************************************)
\* String.prototype.includes on sequences of code points
Includes(text, pattern) ==
    \E i \in 1..(Len(text) - Len(pattern) + 1) :
        SubSeq(text, i, i + Len(pattern) - 1) = pattern

\* The decoding of a long buffer, piece by piece.  A byte outside 80..BF never
\* continues a sequence: the decoder closes a pending sequence with U+FFFD
\* and starts afresh at it, exactly as it does at the end of its input, so
\* the text of the buffer is the text before that byte followed by the text
\* from it.
RECURSIVE decodePieces(_)
decodePieces(bytes) ==
    LET starts == { i \in 17..Len(bytes) : bytes[i] \notin 128..191 }
    IN  IF starts = {}
        THEN utf8Loop(bytes, 0, 0, 0, 0, 128, 191, <<>>)
        ELSE LET i == CHOOSE k \in starts : \A j \in starts : k <= j
             IN  utf8Loop(SubSeq(bytes, 1, i - 1), 0, 0, 0, 0, 128, 191, <<>>)
                 \o TheOne({ decodePieces(rest) :
                                rest \in {SubSeq(bytes, i, Len(bytes))} })

\* new TextDecoder('utf-8', {fatal: false}).decode
TextDecodeLong(bytes) ==
    LET s == decodePieces(bytes)
    IN  IF Len(s) > 0 /\ s[1] = 65279 THEN Tail(s) ELSE s

\* the first 200 bytes of the response, decoded as text
possibleText(data) == TextDecodeLong(Slice(data, 0, Min(200, Len(data))))

\* "grpc-status" or "grpc-message"
looksLikeGrpcError(text) ==
    \/ Includes(text, <<103, 114, 112, 99, 45, 115, 116, 97, 116, 117, 115>>)
    \/ Includes(text, <<103, 114, 112, 99, 45, 109, 101, 115, 115, 97, 103, 101>>)

\* "HTTP/", "<html" or "error"
looksLikeHttpError(text) ==
    \/ Includes(text, <<72, 84, 84, 80, 47>>)
    \/ Includes(text, <<60, 104, 116, 109, 108>>)
    \/ Includes(text, <<101, 114, 114, 111, 114>>)

\* the number of entries of the array methods
MethodCount == 7

\* the offsets the method 'Safe boundary check manual parsing' tries in turn
safeOffsets == <<0, 1, 2, 3, 4, 5, 8, 10, 12, 16>>

\* What methods[m].parse() hands to manualParseListUsersResponse, m counted
\* from 1: the response from offset start on, unless it throws before.
Throws == [threw |-> TRUE, start |-> 0]

From(start) == [threw |-> FALSE, start |-> start]

methodData(m, data) ==
    LET byteLength == Len(data)
    IN  CASE m = 1 -> IF byteLength = 0 THEN Throws ELSE From(0)
          [] m = 2 -> IF byteLength <= 5 THEN Throws ELSE From(5)
          [] m = 3 -> IF byteLength <= 8 THEN Throws ELSE From(8)
          [] m = 4 ->
                IF byteLength <= 5 THEN Throws
                ELSE IF Max(0, Min(byteLength - 5, byteLength - 5)) = 0
                     THEN Throws ELSE From(5)
          [] m = 5 ->
                \* the first offset inside the response is parsed, and
                \* manualParseListUsersResponse throws nothing
                LET tried == { i \in 1..Len(safeOffsets) : safeOffsets[i] < byteLength }
                IN  IF byteLength < 1 \/ tried = {} THEN Throws
                    ELSE From(safeOffsets[CHOOSE i \in tried : \A j \in tried : i <= j])
          [] OTHER -> Throws

InitFallback ==
    /\ AppIdle
    /\ input \in Inputs
    /\ responseData = Response(input)
    /\ pc = "caught"
    /\ now = 0
    /\ messageData = NoMessage
    /\ users = <<>>
    /\ prev = [set |-> FALSE, users |-> <<>>]
    /\ method = 0
    /\ result = NoResult
    /\ varint = NoRead

\* a response of 128 bytes or more is decoded by the standard frame parser
\* and the hand-written decoder, whose result is returned as a success
LargeResponse ==
    /\ pc = "caught"
    /\ Len(responseData) >= 128
    /\ messageData' = parseStandardGrpcWebFrame(responseData)
    /\ \E r \in { manualParseListUsersResponse(
                       MessageBytes(responseData, messageData'), now) } :
           /\ users' = r.users
           /\ pc' = IF r.diverges THEN "hung" ELSE "returned"
           /\ result' = IF r.diverges THEN result
                        ELSE Result(TRUE, Len(r.users), "large")
    /\ UNCHANGED <<input, responseData, now, prev, method, varint>>
    /\ UNCHANGED appVars

\* a smaller response that reads like an error message is reported as a
\* failure; any other goes to the methods
TextCheck ==
    /\ pc = "caught"
    /\ Len(responseData) < 128
    /\ LET text == possibleText(responseData)
       IN  IF looksLikeGrpcError(text) \/ looksLikeHttpError(text)
           THEN /\ result' = Result(FALSE, 0, "text")
                /\ pc' = "returned"
                /\ UNCHANGED method
           ELSE /\ pc' = "methods"
                /\ method' = 1
                /\ UNCHANGED result
    /\ UNCHANGED <<input, responseData, now, messageData, users, prev,
                   varint>>
    /\ UNCHANGED appVars

\* one iteration of the loop over the methods
TryMethod ==
    /\ pc = "methods"
    /\ method <= MethodCount
    /\ \E d \in { methodData(method, responseData) } :
           IF d.threw
           THEN /\ method' = method + 1
                /\ UNCHANGED <<pc, users, result>>
           ELSE \E r \in { manualParseListUsersResponse(
                               Slice(responseData, d.start, Len(responseData)),
                               now) } :
                    /\ users' = r.users
                    /\ pc' = IF r.diverges THEN "hung" ELSE "returned"
                    /\ result' = IF r.diverges THEN result
                                 ELSE Result(TRUE, Len(r.users), "method")
                    /\ UNCHANGED method
    /\ UNCHANGED <<input, responseData, now, messageData, prev, varint>>
    /\ UNCHANGED appVars

\* the loop has ended: all parsing methods failed
Exhausted ==
    /\ pc = "methods"
    /\ method > MethodCount
    /\ result' = Result(FALSE, 0, "exhausted")
    /\ pc' = "returned"
    /\ UNCHANGED <<input, responseData, now, messageData, users, prev, method,
                   varint>>
    /\ UNCHANGED appVars

NextFallback == LargeResponse \/ TextCheck \/ TryMethod \/ Exhausted

SpecFallback == InitFallback /\ [][NextFallback]_vars

(***************************************************************************)
(* readVarintSafe on its own: it is applied at offset 0 or 1 of every byte *)
(* sequence of up to MaxBytes bytes drawn from VarintBytes.                *)
(***************************************************************************)
MaxBytes == 6

\* bytes with and without continuation bit: 00, 01, 0F, 7F, 80, FF
VarintBytes == {0, 1, 15, 127, 128, 255}

InitVarint ==
    /\ AppIdle
    /\ responseData \in UNION { [1..n -> VarintBytes] : n \in 1..MaxBytes }
    /\ input = [shape |-> "raw", flag |-> 0, declared |-> "exact",
                trailer |-> FALSE, pre |-> "ana", count |-> 0, mid |-> "none",
                post |-> "none", raw |-> responseData]
    /\ pc = "varint"
    /\ now = 0
    /\ messageData = NoMessage
    /\ users = <<>>
    /\ prev = [set |-> FALSE, users |-> <<>>]
    /\ method = 0
    /\ result = NoResult
    /\ varint = NoRead

\* this.readVarintSafe(data, offset)
ReadVarint ==
    /\ pc = "varint"
    /\ \E offset \in {0, 1} :
           varint' = [offset |-> offset, read |-> readVarintSafe(responseData, offset)]
    /\ pc' = "read"
    /\ UNCHANGED <<input, responseData, now, messageData, users, prev, method,
                   result>>
    /\ UNCHANGED appVars

NextVarint == ReadVarint

SpecVarint == InitVarint /\ [][NextVarint]_vars

(***************************************************************************)
(* The singleton client.  getGrpcClient(config) creates the client on the  *)
(* first call and overwrites its config and baseUrl on every later call;   *)
(* testConnection and createUser read this.baseUrl and this.config after   *)
(* their first await.  A URL is the base URL followed by the method path.  *)
(***************************************************************************)
Configs ==
    { [serverAddress |-> "headscale-a", enableTls |-> FALSE, port |-> 50443,
       apiKey |-> "key-a"],
      [serverAddress |-> "headscale-b", enableTls |-> TRUE, port |-> 443,
       apiKey |-> "key-b"] }

buildBaseUrl(config) ==
    <<IF config.enableTls THEN "https" ELSE "http", config.serverAddress,
      config.port>>

\* new HeadscaleGrpcClient(config)
NewClient(config) ==
    [created |-> TRUE, config |-> config, baseUrl |-> buildBaseUrl(config),
     protoRoot |-> "null"]

updateConfig(client, config) ==
    [client EXCEPT !.config = config, !.baseUrl = buildBaseUrl(config)]

getGrpcClient(client, config) ==
    IF ~client.created THEN NewClient(config) ELSE updateConfig(client, config)

\* this.protoRoot after loadProto has loaded the schema
loadProto(client) ==
    IF client.protoRoot = "null"
    THEN [client EXCEPT !.protoRoot = "user.proto"]
    ELSE client

Callers == {1, 2}

Operations == {"testConnection", "createUser"}

methodPath(op) ==
    IF op = "testConnection" THEN "/headscale.v1.HeadscaleService/ListUsers"
    ELSE "/headscale.v1.HeadscaleService/CreateUser"

NoConfig == [serverAddress |-> "", enableTls |-> FALSE, port |-> 0, apiKey |-> ""]

\* a caller that has not called yet
NoCall ==
    [pc |-> "idle", op |-> "none", config |-> NoConfig,
     url |-> <<>>, apiKey |-> ""]

notClient == <<decodeVars, decoded, conn, userCreate, keys, routes, page>>

InitClient ==
    /\ grpcClient = NoClient
    /\ calls = [i \in Callers |-> NoCall]
    /\ decoded = NoDecodes
    /\ ConnIdle /\ UserCreateIdle /\ KeysIdle /\ RoutesIdle /\ PageIdle
    /\ input = [shape |-> "raw", flag |-> 0, declared |-> "exact",
                trailer |-> FALSE, pre |-> "ana", count |-> 0, mid |-> "none",
                post |-> "none", raw |-> <<>>]
    /\ responseData = <<>>
    /\ pc = "idle"
    /\ now = 0
    /\ messageData = NoMessage
    /\ users = <<>>
    /\ prev = [set |-> FALSE, users |-> <<>>]
    /\ method = 0
    /\ result = NoResult
    /\ varint = NoRead

\* testGrpcConnection(config) or createUserWithNamespace(config, ...): the
\* call runs getGrpcClient(config) and the method up to await this.loadProto()
StartCall ==
    \E i \in Callers, op \in Operations, config \in Configs :
        /\ calls[i].pc = "idle"
        /\ grpcClient' = getGrpcClient(grpcClient, config)
        /\ calls' = [calls EXCEPT ![i] =
                        [pc |-> "loadProto", op |-> op, config |-> config,
                         url |-> <<>>, apiKey |-> ""]]
        /\ UNCHANGED notClient

\* loadProto has resolved: the method builds its URL and headers from
\* this.baseUrl and this.config and calls fetch
ProtoLoaded ==
    \E i \in Callers :
        /\ calls[i].pc = "loadProto"
        /\ grpcClient' = loadProto(grpcClient)
        /\ calls' = [calls EXCEPT ![i] =
                        [calls[i] EXCEPT
                            !.pc = "fetch",
                            !.url = <<grpcClient.baseUrl, methodPath(calls[i].op)>>,
                            !.apiKey = grpcClient.config.apiKey]]
        /\ UNCHANGED notClient

\* load() has rejected for both schema files: the method ends without a
\* request
ProtoFailed ==
    \E i \in Callers :
        /\ calls[i].pc = "loadProto"
        /\ grpcClient.protoRoot = "null"
        /\ calls' = [calls EXCEPT ![i].pc = "failed"]
        /\ UNCHANGED grpcClient
        /\ UNCHANGED notClient

\* the response has arrived and the method has returned
Responded ==
    \E i \in Callers :
        /\ calls[i].pc = "fetch"
        /\ calls' = [calls EXCEPT ![i].pc = "done"]
        /\ UNCHANGED grpcClient
        /\ UNCHANGED notClient

NextClient == StartCall \/ ProtoLoaded \/ ProtoFailed \/ Responded

SpecClient == InitClient /\ [][NextClient]_vars

(***************************************************************************)
(* Decodes in sequence.  The client decodes one response after another,    *)
(* by the steps of testConnection (primary) or by those of                 *)
(* tryAlternativeParsingMethods (fallback); between two decodes its        *)
(* config may be replaced and its schema loaded.  The clock is held, as    *)
(* the created-at of a record is the time of its decode.  decoded.log      *)
(* keeps, for every finished decode, the response, the outcome and whether *)
(* the client's fields were the same before and after.                     *)
(***************************************************************************)
MaxDecodes == 3

\* a valid frame with one record, the same without trailer, the same with
\* flag 2, and the empty response
DecodeInputs ==
    { in \in Inputs :
        \/ /\ in.shape = "framed"
           /\ <<in.flag, in.declared, in.trailer>>
                \in {<<0, "exact", TRUE>>, <<0, "exact", FALSE>>, <<2, "exact", TRUE>>}
           /\ in.pre = "ana" /\ in.count = 1 /\ in.mid = "none" /\ in.post = "none"
        \/ in.shape = "raw" /\ in.raw = <<>> }

DecodeModes == {"primary", "fallback"}

InitDecodes ==
    /\ grpcClient = NoClient
    /\ calls = <<>>
    /\ decoded = NoDecodes
    /\ ConnIdle /\ UserCreateIdle /\ KeysIdle /\ RoutesIdle /\ PageIdle
    /\ input \in { in \in DecodeInputs : in.shape = "raw" }
    /\ responseData = <<>>
    /\ pc = "between"
    /\ now = 0
    /\ messageData = NoMessage
    /\ users = <<>>
    /\ prev = [set |-> FALSE, users |-> <<>>]
    /\ method = 0
    /\ result = NoResult
    /\ varint = NoRead

\* getGrpcClient(config) between two decodes
Configure ==
    /\ pc = "between"
    /\ \E config \in Configs : grpcClient' = getGrpcClient(grpcClient, config)
    /\ grpcClient' # grpcClient
    /\ UNCHANGED <<decodeVars, calls, decoded, conn, userCreate, keys, routes, page>>

\* loadProto() between two decodes
SchemaLoaded ==
    /\ pc = "between"
    /\ grpcClient.created
    /\ grpcClient.protoRoot = "null"
    /\ grpcClient' = loadProto(grpcClient)
    /\ UNCHANGED <<decodeVars, calls, decoded, conn, userCreate, keys, routes, page>>

\* a response arrives: testConnection decodes it, or it is handed to
\* tryAlternativeParsingMethods
StartDecode ==
    /\ pc = "between"
    /\ grpcClient.created
    /\ Cardinality(decoded.log) < MaxDecodes
    /\ \E in \in DecodeInputs, mode \in DecodeModes :
           /\ input' = in
           /\ responseData' = IF mode = "fallback" THEN Response(in) ELSE <<>>
           /\ pc' = IF mode = "fallback" THEN "caught" ELSE "idle"
           /\ decoded' = [decoded EXCEPT !.mode = mode, !.before = grpcClient]
    /\ messageData' = NoMessage
    /\ users' = <<>>
    /\ method' = 0
    /\ result' = NoResult
    /\ UNCHANGED <<now, prev, varint>>
    /\ UNCHANGED <<grpcClient, calls, conn, userCreate, keys, routes, page>>

\* the decode has returned its result
RecordDecode ==
    /\ (pc = "idle" /\ result.returned) \/ pc = "returned"
    /\ decoded' = [log |-> decoded.log \cup
                              { [mode |-> decoded.mode, input |-> input,
                                 result |-> result, users |-> users,
                                 kept |-> (grpcClient = decoded.before)] },
                   mode |-> "none", before |-> NoClient]
    /\ pc' = "between"
    /\ UNCHANGED <<input, responseData, now, messageData, users, prev, method,
                   result, varint>>
    /\ UNCHANGED <<grpcClient, calls, conn, userCreate, keys, routes, page>>

NextDecodes ==
    \/ Configure \/ SchemaLoaded \/ StartDecode \/ RecordDecode
    \/ Receive \/ ParseFrame \/ ManualParse \/ Finish
    \/ TextCheck \/ TryMethod \/ Exhausted

SpecDecodes == InitDecodes /\ [][NextDecodes]_vars

(***************************************************************************)
(* The user-creation form (UserCreate.svelte).  Texts are sequences of     *)
(* code points.  apiCalls lists the creation API calls made, one record    *)
(* per call with what the form held when newUser chose the API; users is   *)
(* App.users.value.                                                        *)
(***************************************************************************)
MaxSubmits == 2

\* the white space String.prototype.trim() removes (the code points in use)
WhiteSpace == {9, 10, 11, 12, 13, 32, 160}

RECURSIVE trimStart(_)
trimStart(text) ==
    IF text # <<>> /\ Head(text) \in WhiteSpace THEN trimStart(Tail(text)) ELSE text

RECURSIVE trimEnd(_)
trimEnd(text) ==
    IF text # <<>> /\ text[Len(text)] \in WhiteSpace
    THEN trimEnd(SubSeq(text, 1, Len(text) - 1))
    ELSE text

trim(text) == trimEnd(trimStart(text))

\* "", " ", "ns", " n " and a tab followed by a space
Namespaces == {<<>>, <<32>>, <<110, 115>>, <<32, 110, 32>>, <<9, 32>>}

\* "ann", "bob"
Usernames == {<<97, 110, 110>>, <<98, 111, 98>>}

\* the API newUser calls, with the namespace compared without trimming, for
\* comparison
creationApiUntrimmed(isGrpcConfigured, namespace) ==
    IF isGrpcConfigured /\ namespace # <<>> THEN "grpc" ELSE "rest"

\* the API newUser calls: isGrpcConfigured && namespace.trim() !== ''
creationApi(isGrpcConfigured, namespace) ==
    IF isGrpcConfigured /\ trim(namespace) # <<>> THEN "grpc" ELSE "rest"

notUserCreate == <<decodeVars, grpcClient, calls, decoded, conn, keys, routes, page>>

InitUserCreate ==
    /\ userCreate = [isGrpcConfigured |-> FALSE, username |-> <<>>,
                     namespace |-> <<>>, show |-> TRUE, loading |-> FALSE,
                     submissions |-> 0, apiCalls |-> <<>>, users |-> <<>>]
    /\ ClientIdle /\ ConnIdle /\ KeysIdle /\ RoutesIdle /\ PageIdle
    /\ input = [shape |-> "raw", flag |-> 0, declared |-> "exact",
                trailer |-> FALSE, pre |-> "ana", count |-> 0, mid |-> "none",
                post |-> "none", raw |-> <<>>]
    /\ responseData = <<>>
    /\ pc = "idle"
    /\ now = 0
    /\ messageData = NoMessage
    /\ users = <<>>
    /\ prev = [set |-> FALSE, users |-> <<>>]
    /\ method = 0
    /\ result = NoResult
    /\ varint = NoRead

\* the gRPC settings are saved or cleared: App.isGrpcConfigured changes
SetGrpcConfigured ==
    /\ userCreate' = [userCreate EXCEPT !.isGrpcConfigured = ~@]
    /\ UNCHANGED notUserCreate

\* the user fills in the form; the inputs are disabled while loading, and
\* the namespace input exists only when gRPC is configured
EditForm ==
    /\ ~userCreate.loading
    /\ \E username \in Usernames, namespace \in Namespaces :
           /\ userCreate.isGrpcConfigured \/ namespace = userCreate.namespace
           /\ userCreate' = [userCreate EXCEPT !.username = username,
                                               !.namespace = namespace]
    /\ userCreate' # userCreate
    /\ UNCHANGED notUserCreate

\* the form is submitted: newUser runs up to the await of the creation call
Submit ==
    /\ ~userCreate.loading
    /\ trim(userCreate.username) # <<>>
    /\ userCreate.submissions < MaxSubmits
    /\ userCreate' =
          [userCreate EXCEPT
              !.loading = TRUE,
              !.submissions = @ + 1,
              !.apiCalls = Append(@,
                  [api |-> creationApi(userCreate.isGrpcConfigured,
                                       userCreate.namespace),
                   isGrpcConfigured |-> userCreate.isGrpcConfigured,
                   username |-> userCreate.username,
                   namespace |-> userCreate.namespace,
                   state |-> "pending"])]
    /\ UNCHANGED notUserCreate

\* the creation call resolves with the created user
Created ==
    /\ userCreate.apiCalls # <<>>
    /\ userCreate.apiCalls[Len(userCreate.apiCalls)].state = "pending"
    /\ userCreate' =
          [userCreate EXCEPT
              !.apiCalls[Len(userCreate.apiCalls)].state = "succeeded",
              !.users = Append(@, userCreate.apiCalls[Len(userCreate.apiCalls)].username),
              !.show = FALSE,
              !.username = <<>>,
              !.namespace = <<>>,
              !.loading = FALSE]
    /\ UNCHANGED notUserCreate

\* the creation call rejects
CreateFailed ==
    /\ userCreate.apiCalls # <<>>
    /\ userCreate.apiCalls[Len(userCreate.apiCalls)].state = "pending"
    /\ userCreate' =
          [userCreate EXCEPT
              !.apiCalls[Len(userCreate.apiCalls)].state = "failed",
              !.loading = FALSE]
    /\ UNCHANGED notUserCreate

NextUserCreate ==
    SetGrpcConfigured \/ EditForm \/ Submit \/ Created \/ CreateFailed

SpecUserCreate == InitUserCreate /\ [][NextUserCreate]_vars

(***************************************************************************)
(* getPreAuthKeys and getPreAuthKeysByUsernames (get.ts).  One request is  *)
(* issued per user ID; each request's promise has two reactions, in the    *)
(* order of their registration: the callback of promises.forEach, which    *)
(* appends the response's keys, and the element handler of Promise.all.    *)
(* A response is a task; the reactions it triggers are microtasks, which   *)
(* all run before the next task.                                           *)
(***************************************************************************)
MaxIds == 2

\* the users the server knows; the last one has no ID
ServerUsers ==
    <<[id |-> "1", name |-> "ann"], [id |-> "2", name |-> "bob"],
      [id |-> "", name |-> "eve"]>>

\* the pre-auth keys the server returns for ?user=userId
preAuthKeysOf(userId) ==
    CASE userId = "1" -> <<"key-1a", "key-1b">>
      [] userId = "2" -> <<"key-2">>
      [] OTHER        -> <<>>

\* the arguments of a call: user IDs, user names, or none
KeyCalls ==
    { [by |-> "ids", args |-> a] :
        a \in UNION { [1..n -> {"1", "2", "", "9"}] : n \in 0..MaxIds } }
    \cup { [by |-> "names", args |-> a] :
        a \in UNION { [1..n -> {"ann", "bob", "eve", "zed"}] : n \in 0..MaxIds } }
    \cup { [by |-> "all", args |-> <<>>] }

\* users.find(u => u.name === username): the first user of that name
findUser(serverUsers, username) ==
    LET found == { i \in 1..Len(serverUsers) : serverUsers[i].name = username }
    IN  IF found = {} THEN <<>>
        ELSE <<serverUsers[CHOOSE i \in found : \A j \in found : i <= j]>>

\* getPreAuthKeysByUsernames: the IDs of the user names that are found
RECURSIVE userIdsOf(_, _)
userIdsOf(serverUsers, usernames) ==
    IF usernames = <<>> THEN <<>>
    ELSE LET user == findUser(serverUsers, Head(usernames))
         IN  (IF user = <<>> THEN <<>> ELSE <<user[1].id>>)
             \o userIdsOf(serverUsers, Tail(usernames))

\* the user IDs a request is issued for, with no ID left out, for comparison
requestedIdsUnfiltered(userIds) == userIds

\* the user IDs a request is issued for: if (userId != "")
requestedIds(userIds) == SelectSeq(userIds, LAMBDA userId : userId # "")

notKeys == <<decodeVars, grpcClient, calls, decoded, conn, userCreate, routes, page>>

InitKeys ==
    /\ \E call \in KeyCalls :
           keys = [call |-> call, pc |-> "called", userIds |-> <<>>,
                   promises |-> <<>>, microtasks |-> <<>>, remaining |-> 0,
                   preAuthKeysAll |-> <<>>, returned |-> <<>>]
    /\ ClientIdle /\ ConnIdle /\ UserCreateIdle /\ RoutesIdle /\ PageIdle
    /\ input = [shape |-> "raw", flag |-> 0, declared |-> "exact",
                trailer |-> FALSE, pre |-> "ana", count |-> 0, mid |-> "none",
                post |-> "none", raw |-> <<>>]
    /\ responseData = <<>>
    /\ pc = "idle"
    /\ now = 0
    /\ messageData = NoMessage
    /\ users = <<>>
    /\ prev = [set |-> FALSE, users |-> <<>>]
    /\ method = 0
    /\ result = NoResult
    /\ varint = NoRead

\* getPreAuthKeys from its promises array on: the requests are issued, the
\* callbacks registered and Promise.all awaited
issueRequests(k, userIds) ==
    LET ids == requestedIds(userIds)
    IN  [k EXCEPT
            !.pc = "awaitAll",
            !.userIds = userIds,
            !.promises = [i \in 1..Len(ids) |-> [userId |-> ids[i], state |-> "pending"]],
            !.remaining = Len(ids),
            !.microtasks = IF Len(ids) = 0 THEN <<[task |-> "resume", promise |-> 0]>>
                           ELSE <<>>]

\* getPreAuthKeys(userIds) is called with user IDs
CallWithIds ==
    /\ keys.pc = "called"
    /\ keys.call.by = "ids"
    /\ keys' = issueRequests(keys, keys.call.args)
    /\ UNCHANGED notKeys

\* a call with user names or without arguments first awaits getUsers
CallGetUsers ==
    /\ keys.pc = "called"
    /\ keys.call.by \in {"names", "all"}
    /\ keys' = [keys EXCEPT !.pc = "getUsers"]
    /\ UNCHANGED notKeys

\* getUsers has resolved: the user IDs are those of the names, or all
UsersLoaded ==
    /\ keys.pc = "getUsers"
    /\ keys' = issueRequests(keys,
                    IF keys.call.by = "names"
                    THEN userIdsOf(ServerUsers, keys.call.args)
                    ELSE [i \in 1..Len(ServerUsers) |-> ServerUsers[i].id])
    /\ UNCHANGED notKeys

\* the response of one request arrives: its promise is fulfilled and its
\* two reactions are queued
KeysResponse ==
    /\ keys.pc = "awaitAll"
    /\ keys.microtasks = <<>>
    /\ \E i \in 1..Len(keys.promises) :
           /\ keys.promises[i].state = "pending"
           /\ keys' = [keys EXCEPT
                          !.promises[i].state = "fulfilled",
                          !.microtasks = <<[task |-> "concat", promise |-> i],
                                           [task |-> "element", promise |-> i]>>]
    /\ UNCHANGED notKeys

\* one request fails: its promise is rejected, and so is Promise.all and
\* with it getPreAuthKeys
KeysFailure ==
    /\ keys.pc = "awaitAll"
    /\ keys.microtasks = <<>>
    /\ \E i \in 1..Len(keys.promises) :
           /\ keys.promises[i].state = "pending"
           /\ keys' = [keys EXCEPT !.promises[i].state = "rejected",
                                   !.pc = "rejected"]
    /\ UNCHANGED notKeys

\* the first queued microtask runs
RunMicrotask ==
    /\ keys.pc = "awaitAll"
    /\ keys.microtasks # <<>>
    /\ LET t == Head(keys.microtasks)
       IN  keys' =
             CASE t.task = "concat" ->
                    [keys EXCEPT
                        !.microtasks = Tail(@),
                        !.preAuthKeysAll =
                            @ \o preAuthKeysOf(keys.promises[t.promise].userId)]
               [] t.task = "element" ->
                    [keys EXCEPT
                        !.remaining = @ - 1,
                        !.microtasks =
                            Tail(@) \o (IF keys.remaining = 1
                                        THEN <<[task |-> "resume", promise |-> 0]>>
                                        ELSE <<>>)]
               [] OTHER ->
                    [keys EXCEPT !.microtasks = Tail(@), !.pc = "returned",
                                 !.returned = keys.preAuthKeysAll]
    /\ UNCHANGED notKeys

NextKeys ==
    \/ CallWithIds \/ CallGetUsers \/ UsersLoaded \/ KeysResponse
    \/ KeysFailure \/ RunMicrotask

SpecKeys == InitKeys /\ [][NextKeys]_vars

(***************************************************************************)
(* getRoutes (get.ts) over apiGet and toApiResponse (base.ts).  A reply is *)
(* a network failure or an HTTP response with a status and a body: the     *)
(* JSON of the data asked for (data), the JSON of an API error (apiError), *)
(* the text Unauthorized, or some other text.                              *)
(***************************************************************************)
Statuses == {200, 401, 404, 500}

Bodies == {"data", "apiError", "Unauthorized", "text"}

Replies ==
    { [kind |-> "network", status |-> 0, body |-> "text"] }
    \cup { [kind |-> "http", status |-> st, body |-> b] :
              st \in Statuses, b \in Bodies }

Returns(data) == [ok |-> TRUE, error |-> "none", data |-> data]

ThrowsError(error) == [ok |-> FALSE, error |-> error, data |-> "none"]

\* toApiResponse testing for the text Unauthorized before the status 404,
\* for comparison
toApiResponseUnauthorizedFirst(response) ==
    IF ~(response.status \in 200..299)
    THEN IF response.body = "Unauthorized"
         THEN ThrowsError("ApiAuthErrorUnauthorized")
         ELSE IF response.status = 404 THEN ThrowsError("ApiNotFoundError")
         ELSE IF response.body = "apiError" THEN ThrowsError("Error: message")
         ELSE ThrowsError("Error: Unspecified Error")
    ELSE IF response.body \in {"Unauthorized", "text"}
         THEN ThrowsError("SyntaxError")
         ELSE IF response.body = "apiError" THEN ThrowsError("Error: message")
         ELSE Returns(response.body)

toApiResponse(response) ==
    IF ~(response.status \in 200..299)
    THEN IF response.status = 404 THEN ThrowsError("ApiNotFoundError")
         ELSE IF response.body = "Unauthorized"
         THEN ThrowsError("ApiAuthErrorUnauthorized")
         ELSE IF response.body = "apiError" THEN ThrowsError("Error: message")
         ELSE ThrowsError("Error: Unspecified Error")
    ELSE \* response.json() rejects for a body that is not JSON
         IF response.body \in {"Unauthorized", "text"}
         THEN ThrowsError("SyntaxError")
         ELSE IF response.body = "apiError" THEN ThrowsError("Error: message")
         ELSE Returns(response.body)

\* apiFetch: fetch rejects on a network failure, and the error is rethrown
apiGet(reply) ==
    IF reply.kind = "network" THEN ThrowsError("TypeError: Failed to fetch")
    ELSE toApiResponse(reply)

notRoutes == <<decodeVars, grpcClient, calls, decoded, conn, userCreate, keys, page>>

InitRoutes ==
    /\ \E routesReply \in Replies, nodesReply \in Replies :
           routes = [pc |-> "called", routesReply |-> routesReply,
                     nodesReply |-> nodesReply, requests |-> <<>>,
                     outcome |-> [kind |-> "none", error |-> "none"]]
    /\ ClientIdle /\ ConnIdle /\ UserCreateIdle /\ KeysIdle /\ PageIdle
    /\ input = [shape |-> "raw", flag |-> 0, declared |-> "exact",
                trailer |-> FALSE, pre |-> "ana", count |-> 0, mid |-> "none",
                post |-> "none", raw |-> <<>>]
    /\ responseData = <<>>
    /\ pc = "idle"
    /\ now = 0
    /\ messageData = NoMessage
    /\ users = <<>>
    /\ prev = [set |-> FALSE, users |-> <<>>]
    /\ method = 0
    /\ result = NoResult
    /\ varint = NoRead

\* getRoutes requests the routes endpoint
RequestRoutes ==
    /\ routes.pc = "called"
    /\ routes' = [routes EXCEPT !.pc = "routes",
                                !.requests = Append(@, "routes")]
    /\ UNCHANGED notRoutes

\* the routes request ends: its routes are returned, or its error is
\* ApiNotFoundError and the nodes endpoint is requested, or its error is
\* rethrown
RoutesReply ==
    /\ routes.pc = "routes"
    /\ LET r == apiGet(routes.routesReply)
       IN  routes' =
             IF r.ok
             THEN [routes EXCEPT !.pc = "done",
                                 !.outcome = [kind |-> "routes", error |-> "none"]]
             ELSE IF r.error = "ApiNotFoundError"
             THEN [routes EXCEPT !.pc = "nodes",
                                 !.requests = Append(@, "nodes")]
             ELSE [routes EXCEPT !.pc = "done",
                                 !.outcome = [kind |-> "thrown", error |-> r.error]]
    /\ UNCHANGED notRoutes

\* getRoutesFromNodes: the nodes request ends, with the nodes the routes
\* are derived from or with an error
NodesReply ==
    /\ routes.pc = "nodes"
    /\ LET r == apiGet(routes.nodesReply)
       IN  routes' =
             IF r.ok
             THEN [routes EXCEPT !.pc = "done",
                                 !.outcome = [kind |-> "fromNodes", error |-> "none"]]
             ELSE [routes EXCEPT !.pc = "done",
                                 !.outcome = [kind |-> "thrown", error |-> r.error]]
    /\ UNCHANGED notRoutes

NextRoutes == RequestRoutes \/ RoutesReply \/ NodesReply

SpecRoutes == InitRoutes /\ [][NextRoutes]_vars

(***************************************************************************)
(* One call of testConnection from its start to the result it resolves     *)
(* with.  conn.pc is the await the call is suspended at, conn.status the   *)
(* HTTP status of the response; the decode of an OK response runs through  *)
(* pc as before.                                                           *)
(***************************************************************************)
HttpStatuses == {200, 401, 404, 415, 500, 502, 503}

\* what fetch rejects with: a network failure, or the AbortSignal's timeout
FetchErrors == {"Failed to fetch", "The operation timed out"}

\* every return of analyzeConnectionError is a failure
analyzeConnectionError(error) == Result(FALSE, 0, "analyze")

\* responses of the server: zero or one record, with a correct, a zero or
\* an excessive declared length, with and without a trailing record whose
\* id is a string of declared length 0xFFFFFFFA; and buffers of less than
\* two bytes
ConnInputs ==
    { in \in Inputs :
        \/ /\ in.shape = "framed"
           /\ <<in.flag, in.declared, in.trailer>>
                \in {<<0, "exact", TRUE>>, <<0, "zero", TRUE>>, <<0, "over", FALSE>>}
           /\ in.pre = "ana" /\ in.count <= 1 /\ in.mid = "none"
           /\ in.post \in {"none", "backward"}
        \/ in.shape = "raw" /\ Len(in.raw) <= 1 }

notConn == <<grpcClient, calls, decoded, userCreate, keys, routes, page>>

InitConnection ==
    /\ conn = [pc |-> "loadProto", status |-> 0]
    /\ ClientIdle /\ UserCreateIdle /\ KeysIdle /\ RoutesIdle /\ PageIdle
    /\ input \in ConnInputs
    /\ responseData = <<>>
    /\ pc = "between"
    /\ now = 0
    /\ messageData = NoMessage
    /\ users = <<>>
    /\ prev = [set |-> FALSE, users |-> <<>>]
    /\ method = 0
    /\ result = NoResult
    /\ varint = NoRead

\* await this.loadProto() settles: the schema is there, or loadProto throws
\* and the outer catch returns the failure
ProtoSettled ==
    /\ conn.pc = "loadProto"
    /\ \E loaded \in BOOLEAN :
           IF loaded
           THEN /\ conn' = [conn EXCEPT !.pc = "fetch"]
                /\ UNCHANGED result
           ELSE /\ conn' = [conn EXCEPT !.pc = "resolved"]
                /\ result' = Result(FALSE, 0, "outer")
    /\ UNCHANGED <<input, responseData, pc, now, messageData, users, prev,
                   method, varint>>
    /\ UNCHANGED notConn

\* await fetch(...) settles: it rejects, or a response of some status arrives
FetchSettled ==
    /\ conn.pc = "fetch"
    /\ \/ \E error \in FetchErrors :
              /\ conn' = [conn EXCEPT !.pc = "resolved"]
              /\ result' = analyzeConnectionError(error)
       \/ \E status \in HttpStatuses :
              IF status = 200
              THEN /\ conn' = [pc |-> "arrayBuffer", status |-> status]
                   /\ UNCHANGED result
              ELSE IF status \in {401, 404, 502, 503}
              THEN /\ conn' = [pc |-> "resolved", status |-> status]
                   /\ result' = Result(FALSE, 0, "status")
              ELSE /\ conn' = [pc |-> "text", status |-> status]
                   /\ UNCHANGED result
    /\ UNCHANGED <<input, responseData, pc, now, messageData, users, prev,
                   method, varint>>
    /\ UNCHANGED notConn

\* await response.text() settles for a status 415 or any other non-OK
\* status: every branch returns a failure, and so does the catch
TextRead ==
    /\ conn.pc = "text"
    /\ conn' = [conn EXCEPT !.pc = "resolved"]
    /\ \E read \in BOOLEAN :
           result' = IF read THEN Result(FALSE, 0, "errorText")
                     ELSE analyzeConnectionError("body")
    /\ UNCHANGED <<input, responseData, pc, now, messageData, users, prev,
                   method, varint>>
    /\ UNCHANGED notConn

\* await response.arrayBuffer() settles for an OK response
BodyRead ==
    /\ conn.pc = "arrayBuffer"
    /\ \E read \in BOOLEAN :
           IF read
           THEN /\ conn' = [conn EXCEPT !.pc = "decode"]
                /\ responseData' = Response(input)
                /\ pc' = "received"
                /\ UNCHANGED result
           ELSE /\ conn' = [conn EXCEPT !.pc = "resolved"]
                /\ result' = analyzeConnectionError("body")
                /\ UNCHANGED <<responseData, pc>>
    /\ UNCHANGED <<input, now, messageData, users, prev, method, varint>>
    /\ UNCHANGED notConn

\* the decode has returned: the promise of testConnection resolves
Resolved ==
    /\ conn.pc = "decode"
    /\ pc = "idle" /\ result.returned
    /\ conn' = [conn EXCEPT !.pc = "resolved"]
    /\ pc' = "between"
    /\ UNCHANGED <<input, responseData, now, messageData, users, prev, method,
                   result, varint>>
    /\ UNCHANGED notConn

NextConnection ==
    \/ ProtoSettled \/ FetchSettled \/ TextRead \/ BodyRead
    \/ ParseFrame \/ ManualParse \/ Finish \/ Resolved

SpecConnection == InitConnection /\ [][NextConnection]_vars

\* every await settles and every synchronous step that can run does run
FairSpecConnection == SpecConnection /\ WF_vars(NextConnection)

(***************************************************************************)
(* The settings page.  loading is one flag of the page, set and cleared by *)
(* saveSettings, by testGrpcConnectionHandler and by the click handler of  *)
(* the Refresh API Key button; the controls are disabled while it is true. *)
(* saves holds, for every saveSettings run in progress, the await it is    *)
(* suspended at.                                                           *)
(***************************************************************************)
MaxSaves == 2

\* "", " " and "h"
SettingTexts == {<<>>, <<32>>, <<104>>}

notPage == <<decodeVars, grpcClient, calls, decoded, conn, userCreate, keys, routes>>

InitPage ==
    /\ page = [loading |-> FALSE, serverAddress |-> <<>>, apiKey |-> <<>>,
               saves |-> <<>>, test |-> "idle", refresh |-> "idle",
               toast |-> "none"]
    /\ ClientIdle /\ ConnIdle /\ UserCreateIdle /\ KeysIdle /\ RoutesIdle
    /\ input = [shape |-> "raw", flag |-> 0, declared |-> "exact",
                trailer |-> FALSE, pre |-> "ana", count |-> 0, mid |-> "none",
                post |-> "none", raw |-> <<>>]
    /\ responseData = <<>>
    /\ pc = "idle"
    /\ now = 0
    /\ messageData = NoMessage
    /\ users = <<>>
    /\ prev = [set |-> FALSE, users |-> <<>>]
    /\ method = 0
    /\ result = NoResult
    /\ varint = NoRead

\* saveSettings from its start to its first await
saveSettingsStart(p) ==
    [p EXCEPT !.loading = TRUE,
              !.saves = Append(@, "populateApiKeyInfo"),
              !.toast = "Saved Settings"]

\* the user edits the gRPC settings; the inputs are disabled while loading
EditSettings ==
    /\ ~page.loading
    /\ \E serverAddress \in SettingTexts, apiKey \in SettingTexts :
           page' = [page EXCEPT !.serverAddress = serverAddress,
                                !.apiKey = apiKey]
    /\ page' # page
    /\ UNCHANGED notPage

\* the form is submitted with the Save Settings button
SubmitSettings ==
    /\ ~page.loading
    /\ Len(page.saves) < MaxSaves
    /\ page' = saveSettingsStart(page)
    /\ UNCHANGED notPage

\* await App.populateApiKeyInfo().catch(handler) has resolved
ApiKeyInfoPopulated ==
    /\ \E i \in 1..Len(page.saves) :
           /\ page.saves[i] = "populateApiKeyInfo"
           /\ page' = [page EXCEPT !.saves[i] = "populateAll"]
    /\ UNCHANGED notPage

\* await App.populateAll(handler, false) has settled: finally
SaveSettled ==
    /\ \E i \in 1..Len(page.saves) :
           /\ page.saves[i] = "populateAll"
           /\ page' = [page EXCEPT
                          !.saves = SubSeq(@, 1, i - 1) \o SubSeq(@, i + 1, Len(@)),
                          !.loading = FALSE]
    /\ UNCHANGED notPage

\* Test gRPC Connection is clicked; the button is disabled while loading
\* or when the address or the key is empty
ClickTest ==
    /\ ~page.loading
    /\ page.serverAddress # <<>> /\ page.apiKey # <<>>
    /\ page.test = "idle"
    /\ page' =
          IF trim(page.serverAddress) = <<>>
          THEN [page EXCEPT !.toast = "Please configure server address first"]
          ELSE IF trim(page.apiKey) = <<>>
          THEN [page EXCEPT !.toast = "Please configure gRPC API Key first"]
          ELSE [page EXCEPT !.loading = TRUE, !.test = "awaiting"]
    /\ page' # page
    /\ UNCHANGED notPage

\* await testGrpcConnection(settings.grpc) has settled: finally
TestSettled ==
    /\ page.test = "awaiting"
    /\ page' = [page EXCEPT !.test = "idle", !.loading = FALSE,
                            !.toast = "gRPC connection test"]
    /\ UNCHANGED notPage

\* Refresh API Key is clicked
ClickRefresh ==
    /\ ~page.loading
    /\ page.refresh = "idle"
    /\ page' = [page EXCEPT !.loading = TRUE, !.refresh = "awaiting"]
    /\ UNCHANGED notPage

\* await refreshApiKey() has settled: when it resolved, saveSettings() is
\* called and not awaited; then finally
RefreshSettled ==
    /\ page.refresh = "awaiting"
    /\ \E resolved \in BOOLEAN :
           page' = IF resolved /\ Len(page.saves) < MaxSaves
                   THEN [saveSettingsStart(page) EXCEPT
                            !.refresh = "idle", !.loading = FALSE]
                   ELSE [page EXCEPT !.refresh = "idle", !.loading = FALSE]
    /\ UNCHANGED notPage

NextPage ==
    \/ EditSettings \/ SubmitSettings \/ ApiKeyInfoPopulated \/ SaveSettled
    \/ ClickTest \/ TestSettled \/ ClickRefresh \/ RefreshSettled

SpecPage == InitPage /\ [][NextPage]_vars

(***************************************************************************)
(* Framing on its own: createGrpcWebFrame is applied to a message and      *)
(* parseGrpcWebFrame to the frame it returns.  The messages are the        *)
(* payloads of the generated responses (0 to more than 123 bytes) and one  *)
(* of 88 bytes, the length parseGrpcWebFrame knows.                        *)
(***************************************************************************)
Messages == { Payload(in) : in \in FramedInputs } \cup { Repeat(<<10, 0>>, 44) }

InitFraming ==
    /\ AppIdle
    /\ \E m \in Messages :
           input = [shape |-> "raw", flag |-> 0, declared |-> "exact",
                    trailer |-> FALSE, pre |-> "ana", count |-> 0,
                    mid |-> "none", post |-> "none", raw |-> m]
    /\ responseData = <<>>
    /\ pc = "message"
    /\ now = 0
    /\ messageData = NoMessage
    /\ users = <<>>
    /\ prev = [set |-> FALSE, users |-> <<>>]
    /\ method = 0
    /\ result = NoResult
    /\ varint = NoRead

\* const requestBody = this.createGrpcWebFrame(requestBuffer)
CreateFrame ==
    /\ pc = "message"
    /\ responseData' = createGrpcWebFrame(input.raw)
    /\ pc' = "created"
    /\ UNCHANGED <<input, now, messageData, users, prev, method, result, varint>>
    /\ UNCHANGED appVars

\* this.parseGrpcWebFrame applied to the frame just created
ParseCreated ==
    /\ pc = "created"
    /\ messageData' = parseGrpcWebFrame(responseData)
    /\ pc' = "parsed"
    /\ UNCHANGED <<input, responseData, now, users, prev, method, result, varint>>
    /\ UNCHANGED appVars

NextFraming == CreateFrame \/ ParseCreated

SpecFraming == InitFraming /\ [][NextFraming]_vars

(***************************************************************************)
(* What a generated response holds, for stating the claims.                *)
(***************************************************************************)
\* a valid frame: flag 0 or 1, declared length = payload length, trailer
ValidFrame(in) ==
    in.shape = "framed" /\ in.flag \in {0, 1} /\ in.declared = "exact" /\ in.trailer

\* the kinds of the users entries of a payload without a mid field, in order
EntryKinds(in) ==
    [i \in 1..in.count |-> in.pre]
    \o (IF in.post = "none" THEN <<>> ELSE <<in.post>>)

\* the decoder was handed exactly the payload of the response
PayloadExtracted ==
    /\ input.shape = "framed"
    /\ MessageBytes(responseData, messageData) = Payload(input)

(***************************************************************************)
(* C1: for a valid frame, frame extraction followed by                     *)
(* manualParseListUsersResponse returns as many records as the payload has *)
(* length-delimited field-1 sub-messages, whatever their bytes and lengths *)
(* (length 0 included).                                                    *)
(***************************************************************************)
C1_ValidFrameRecordCount ==
    (pc = "decoded" /\ ValidFrame(input) /\ input.mid = "none")
        => Len(users) = Len(EntryKinds(input))

(***************************************************************************)
(* C2: the id of a decoded record is the decimal string of the unsigned    *)
(* integer its field 1 varint encodes.                                     *)
(***************************************************************************)
C2_IdIsDecimalOfVarint ==
    (pc = "decoded" /\ ValidFrame(input) /\ input.mid = "none"
        /\ Len(users) = Len(EntryKinds(input)))
        => \A i \in 1..Len(users) :
               EntryKinds(input)[i] # "empty"
                   => users[i].id = Digits(UserId(EntryKinds(input)[i]))

(***************************************************************************)
(* C3: two decodes of the same buffer return identical record collections, *)
(* field by field, whenever they run.                                      *)
(***************************************************************************)
C3_DecodeDeterministic ==
    (pc = "decoded" /\ prev.set) => users = prev.users

(***************************************************************************)
(* C4: a payload of N valid records followed by exactly one byte whose low *)
(* three bits are 7 decodes to exactly N records.                          *)
(***************************************************************************)
C4_RecordsThenCorruptByte ==
    (pc = "decoded" /\ PayloadExtracted /\ input.mid = "junk1"
        /\ input.post = "none")
        => Len(users) = input.count

(***************************************************************************)
(* C5: a buffer of length 0, 1, 4 or 5, whatever its bytes, decodes        *)
(* without an exception to 0 records, through the short-buffer branch.     *)
(***************************************************************************)
C5_ShortBufferNoRecords ==
    (input.shape = "raw" /\ Len(input.raw) \in ShortLengths)
        => /\ pc \notin {"raised", "hung"}
           /\ pc = "decoded"
                => users = <<>> /\ messageData.path \in {"empty", "short"}

\* C5 as amended: such a buffer decodes without an exception, to 0 records
\* when its length is 0 or 1 and to at most 1 record when it is 4 or 5; only
\* a buffer shorter than 5 bytes takes the short-buffer branch, in which the
\* whole buffer is the message.
C5_ShortBufferAtMostOneRecord ==
    (input.shape = "raw" /\ Len(input.raw) \in ShortLengths)
        => /\ pc \notin {"raised", "hung"}
           /\ pc = "decoded"
                => /\ Len(users) <= 1
                   /\ Len(responseData) <= 1 => users = <<>>
                   /\ messageData.path \in {"empty", "short"}
                        <=> Len(responseData) < 5
                   /\ messageData.path = "short"
                        => MessageBytes(responseData, messageData) = responseData

C5_Witness ==
    /\ pc = "decoded" /\ input.shape = "raw"
    /\ Len(responseData) = 4 /\ messageData.path = "short"
    /\ Len(users) = 1

(***************************************************************************)
(* C6: when the declared length exceeds the bytes after the header, every  *)
(* record lying entirely inside the buffer is returned, below and above    *)
(* the 128-byte threshold alike.                                           *)
(***************************************************************************)
C6_OverstatedLengthKeepsRecords ==
    (pc = "decoded" /\ input.shape = "framed" /\ input.declared = "over"
        /\ ~input.trailer /\ input.mid = "none"
        /\ "empty" \notin {EntryKinds(input)[i] : i \in 1..Len(EntryKinds(input))})
        => Len(users) = Len(EntryKinds(input))

C8_FrameParsersNeverRaise ==
    /\ pc # "raised"
    /\ ~messageData.raised
    /\ pc = "received"
         => /\ ~parseGrpcWebFrame(responseData).raised
            /\ ~parseStandardGrpcWebFrame(responseData).raised

\* the try block threw (declared length 0x58, fewer than 93 bytes) and the
\* fallback extraction returned a slice
C8_Witness ==
    /\ pc = "framed"
    /\ Len(responseData) >= 5 /\ Len(responseData) < 93
    /\ getUint32(responseData, 1) = 88
    /\ frameTry(responseData).threw
    /\ ~messageData.raised

(***************************************************************************)
(* C9: at a tag whose wire type is not 0, 1, 2 or 5, or a length that      *)
(* overruns (at top level or inside a record), the decoder stops: records  *)
(* decoded before the violation are returned and no record or field after  *)
(* it is decoded.                                                          *)
(***************************************************************************)
C9_ScanStopsAtViolation ==
    (pc = "decoded" /\ PayloadExtracted /\ input.mid \in ViolationKinds
        /\ input.pre # "empty")
        => /\ Len(users) >= input.count
           /\ input.mid \in {"junk1", "junk2", "overrun"}
                => Len(users) = input.count
           /\ input.mid \in {"badWire", "badLength"}
                => /\ Len(users) <= input.count + 1
                   /\ Len(users) = input.count + 1
                        => /\ users[input.count + 1].name = <<>>
                           /\ users[input.count + 1].displayName = <<>>

(***************************************************************************)
(* C10: an unknown field with a valid wire type lying entirely inside the  *)
(* payload is skipped to the first byte after it (varint: after the byte   *)
(* without continuation bit; fixed64: tag + 8; length-delimited: tag +     *)
(* length prefix + length; fixed32: tag + 4), at top level and inside a    *)
(* record, and the records and fields that follow it are still decoded.    *)
(***************************************************************************)
\* offset of the mid field in the payload
MidOffset(in) == Len(Repeat(UsersEntry(in.pre), in.count))

\* the fields of UserMixed the decoder does not know: <<offset, length>>
MixedUnknownFields == {<<3, 2>>, <<5, 9>>, <<14, 5>>, <<19, 4>>}

C10_UnknownFieldsSkipped ==
    (pc = "decoded" /\ PayloadExtracted /\ input.mid \in UnknownKinds)
        => /\ skipFieldSafe(Payload(input), MidOffset(input), MidWireType(input.mid))
                = MidOffset(input) + Len(MidBytes(input.mid))
           /\ users = manualParseListUsersResponse(
                          Payload([input EXCEPT !.mid = "none"]), now).users
           /\ input.pre # "empty"
                => /\ Len(users) >= input.count
                   /\ input.post = "ana" => Len(users) = input.count + 1
                   /\ \A i \in 1..input.count :
                        /\ users[i].name = UserName(input.pre)
                        /\ users[i].displayName = UserDisplayName(input.pre)
           /\ \A f \in MixedUnknownFields :
                /\ skipFieldSafe(UserMixed, f[1], UserMixed[f[1] + 1] % 8)
                     = f[1] + f[2]
                /\ parseUnknownField(UserMixed, f[1] + 1, UserMixed[f[1] + 1] % 8,
                                     NewUser(now)).offset = f[1] + f[2]

C10_Witness ==
    /\ pc = "decoded" /\ PayloadExtracted
    /\ input.mid \in UnknownKinds /\ input.pre = "mixed" /\ input.count = 2
    /\ input.post = "ana"
    /\ Len(users) = 3
    /\ users[1].name = <<98, 111>> /\ users[3].name = <<97, 110, 97>>

(***************************************************************************)
(* C11: the decoded name is the text of the record's field 2 and the       *)
(* decoded display name the text of its field 4 (empty when absent),       *)
(* wherever the two fields stand among fields 1, 3 and unknown fields.     *)
(***************************************************************************)
\* the users entries of the response that carry a non-empty User, in order
DecodableKinds(in) ==
    SelectSeq(EntryKinds(in), LAMBDA k : k # "empty")

\* a response whose every users entry is decoded (no zero-length entry
\* before another entry, no field between the entries)
PlainPayload ==
    PayloadExtracted /\ input.mid = "none" /\ input.pre # "empty"

C11_TextFieldsRoundTrip ==
    (pc = "decoded" /\ PlainPayload)
        => /\ Len(users) = Len(DecodableKinds(input))
           /\ \A i \in 1..Len(users) :
                /\ users[i].name = UserName(DecodableKinds(input)[i])
                /\ users[i].displayName = UserDisplayName(DecodableKinds(input)[i])

\* a text without the byte-order mark it starts with
StripBom(text) ==
    IF Len(text) > 0 /\ text[1] = 65279 THEN Tail(text) ELSE text

\* C11 as amended: the decoded name and display name are the UTF-8 decoding
\* of fields 2 and 4 in which a malformed sequence becomes U+FFFD and a
\* leading byte-order mark is dropped, wherever the two fields stand.
C11_TextFieldsDecoded ==
    (pc = "decoded" /\ PlainPayload)
        => /\ Len(users) = Len(DecodableKinds(input))
           /\ \A i \in 1..Len(users) :
                /\ users[i].name = StripBom(UserName(DecodableKinds(input)[i]))
                /\ users[i].displayName = UserDisplayName(DecodableKinds(input)[i])

C11_Witness ==
    /\ pc = "decoded" /\ PlainPayload
    /\ input.pre = "mixed" /\ input.count = 1 /\ input.post = "reordered"
    /\ Len(users) = 2
    /\ users[2].name = <<98, 111>> /\ users[2].displayName = <<100, 105>>

(***************************************************************************)
(* C12: the creation timestamp of a decoded record is the value carried by *)
(* field 3 of its sub-message.                                             *)
(***************************************************************************)
C12_CreatedAtFromField3 ==
    (pc = "decoded" /\ PlainPayload)
        => \A i \in 1..Len(users) :
               (i <= Len(DecodableKinds(input))
                    /\ DecodableKinds(input)[i] \in TimestampKinds)
                   => users[i].createdAt = UserCreatedAt(DecodableKinds(input)[i])

(***************************************************************************)
(* C13: testConnection reports a successful decode only when a run of the  *)
(* record decoder yielded at least one record; a primary decode of zero    *)
(* records leads to the fallback strategies, not to a success.             *)
(***************************************************************************)
C13_SuccessNeedsRecord ==
    (result.returned /\ result.success /\ result.via = "primary")
        => result.count >= 1

(***************************************************************************)
(* C14: the fallback chain tries raw buffer, buffer without its first 5    *)
(* bytes, buffer without its first 8 bytes, then the other candidates, and *)
(* accepts the first candidate from which the record decoder produces at   *)
(* least one record; a candidate yielding zero records is rejected.        *)
(***************************************************************************)
\* the candidates of the response from which the decoder produces a record
YieldingMethods ==
    { m \in 1..MethodCount :
        /\ ~methodData(m, responseData).threw
        /\ manualParseListUsersResponse(
               Slice(responseData, methodData(m, responseData).start,
                     Len(responseData)), now).users # <<>> }

C14_FirstCandidateWithRecords ==
    (pc = "returned" /\ result.via \in {"method", "exhausted"})
        => IF YieldingMethods = {}
           THEN ~result.success
           ELSE /\ result.success
                /\ result.count >= 1
                /\ method \in YieldingMethods
                /\ \A m \in YieldingMethods : method <= m

(***************************************************************************)
(* C15: tryAlternativeParsingMethods returns a failure exactly when every  *)
(* strategy was tried and none accepted, and raises nothing; no failure is *)
(* reported while an untried strategy remains.                             *)
(***************************************************************************)
C15_FailureOnlyWhenExhausted ==
    /\ pc # "raised"
    /\ (pc = "returned" /\ ~result.success)
         => result.via = "exhausted" /\ method > MethodCount
    /\ (pc = "returned" /\ method > MethodCount) => ~result.success

(***************************************************************************)
(* C16: in parseStandardGrpcWebFrame the payload ends at 5 + declared      *)
(* length only when a trailer start was found beyond that offset, inside   *)
(* the buffer; otherwise at the trailer start when one was found;          *)
(* otherwise at the buffer length minus the trailer margin of 30 bytes.    *)
(* The position of the no-trailer fallback is never taken for a trailer.   *)
(***************************************************************************)
C16_PayloadEndReconciled ==
    (pc = "framed" /\ Len(responseData) >= 128 /\ messageData.path = "standard")
        => LET declaredEnd  == 5 + getUint32(responseData, 1)
               trailerStart == trailerScan(responseData, 5)
           IN  messageData.end =
                   IF trailerStart >= 0 /\ trailerStart > declaredEnd
                      /\ declaredEnd <= Len(responseData)
                   THEN declaredEnd
                   ELSE IF trailerStart >= 0 THEN trailerStart
                   ELSE Len(responseData) - 30

(***************************************************************************)
(* C17: findGrpcTrailerStart reports an offset i >= 5 as trailer start     *)
(* only if byte i is 0x80, the next four bytes are a big-endian length     *)
(* that is positive, below 100 and fits in the buffer, and the bytes after *)
(* it are readable key: value metadata.                                    *)
(***************************************************************************)
\* printable ASCII with CR and LF, holding a colon
ReadableMetadata(bytes) ==
    /\ \A i \in 1..Len(bytes) : bytes[i] \in (32..126) \cup {10, 13}
    /\ \E i \in 1..Len(bytes) : bytes[i] = 58

C17_TrailerStartIsTrailer ==
    (pc = "framed" /\ Len(responseData) >= 128
        /\ findGrpcTrailerStart(responseData, 5).found)
        => LET i             == findGrpcTrailerStart(responseData, 5).pos
               trailerLength == getUint32(responseData, i + 1)
           IN  /\ i >= 5
               /\ At(responseData, i) = 128
               /\ trailerLength > 0 /\ trailerLength < 100
               /\ i + 5 + trailerLength <= Len(responseData)
               /\ ReadableMetadata(
                      Slice(responseData, i + 5, i + 5 + trailerLength))

(***************************************************************************)
(* C18: for a buffer of at least 5 bytes whose first byte is neither 0 nor *)
(* 1, the frame extractor does not use the declared length but hands the   *)
(* buffer to extractMessageFromComplexFrame, below and from 128 bytes on.  *)
(***************************************************************************)
C18_UnexpectedFlagUsesHeuristics ==
    (pc = "framed" /\ Len(responseData) >= 5 /\ At(responseData, 0) \notin {0, 1})
        => messageData = extractMessageFromComplexFrame(responseData)

(***************************************************************************)
(* C19: readVarintSafe reports a failure when the fifth byte read still    *)
(* has its continuation bit set: it returns no value for a varint that is  *)
(* not terminated within 5 bytes.                                          *)
(***************************************************************************)
\* the index, from the offset, of the first byte without continuation bit
\* among the at most 5 bytes of the varint; -1 when there is none
LastByteIndex(data, offset) ==
    LET ends == { k \in 0..4 : offset + k < Len(data) /\ At(data, offset + k) < 128 }
    IN  IF ends = {} THEN -1 ELSE CHOOSE k \in ends : \A j \in ends : k <= j

C19_UnterminatedVarintFails ==
    (pc = "read" /\ varint.offset + 5 <= Len(responseData)
        /\ LastByteIndex(responseData, varint.offset) = -1)
        => ~varint.read.ok

(***************************************************************************)
(* C20: for a varint of 1 to 5 bytes inside the buffer, readVarintSafe     *)
(* returns its byte count as bytesRead and the non-negative integer        *)
(* sum of (byte_k & 0x7F) * 2^(7k) as value, for all values up to 35 bits, *)
(* never negative and never wrapped to 32 bits.                            *)
(***************************************************************************)
\* The integer a varint encodes, as <<bits 28 and up, bits 0 to 27>>: the
\* first four bytes give the low 28 bits, the fifth byte the bits above.
EncodedValue(data, offset, last) ==
    LET bits(k) == IF k <= last THEN At(data, offset + k) % 128 ELSE 0
    IN  <<bits(4),
          bits(0) + bits(1) * 128 + bits(2) * 16384 + bits(3) * 2097152>>

C20_VarintValueExact ==
    (pc = "read" /\ LastByteIndex(responseData, varint.offset) >= 0)
        => LET last == LastByteIndex(responseData, varint.offset)
           IN  /\ varint.read.ok
               /\ varint.read.bytesRead = last + 1
               /\ varint.read.value >= 0
               /\ <<varint.read.value \div 268435456,
                    varint.read.value % 268435456>>
                      = EncodedValue(responseData, varint.offset, last)

(***************************************************************************)
(* C24: manualParseListUsersResponse and manualParseUser terminate on      *)
(* every byte sequence: each loop iteration strictly increases the offset  *)
(* or leaves the loop, also when a length varint decodes to a negative or  *)
(* huge value or a skip is clamped to the buffer end.                      *)
(***************************************************************************)
C24_DecodersTerminate == pc # "hung"

(***************************************************************************)
(* C22: createGrpcWebFrame(m) returns exactly 5+|m| bytes: byte 0 is 0,    *)
(* bytes 1..4 are |m| as a big-endian unsigned 32-bit integer, and the     *)
(* bytes from 5 on are the bytes of m unchanged and in order.              *)
(***************************************************************************)
C22_FrameLayout ==
    pc \in {"created", "parsed"}
        => /\ Len(responseData) = 5 + Len(input.raw)
           /\ At(responseData, 0) = 0
           /\ \A i \in 1..4 : At(responseData, i) \in 0..255
           /\ At(responseData, 1) * 16777216 + At(responseData, 2) * 65536
                + At(responseData, 3) * 256 + At(responseData, 4)
                    = Len(input.raw)
           /\ \A i \in 1..Len(input.raw) :
                At(responseData, 4 + i) = input.raw[i]

C22_Witness ==
    /\ pc = "created"
    /\ Len(input.raw) = 88
    /\ Len(responseData) = 93
    /\ At(responseData, 4) = 88 /\ At(responseData, 5) = 10

(***************************************************************************)
(* C25: framing round-trips: for every message m (empty, shorter than 123  *)
(* bytes, exactly 88 bytes, 123 bytes or longer),                          *)
(* parseGrpcWebFrame(createGrpcWebFrame(m)) returns exactly the bytes of m.*)
(***************************************************************************)
C25_FramingRoundTrip ==
    pc = "parsed"
        => /\ ~messageData.raised
           /\ MessageBytes(responseData, messageData) = input.raw

(***************************************************************************)
(* C26: under any interleaving of calls to testGrpcConnection(config) and  *)
(* createUserWithNamespace(config, ...) with different configs, each call  *)
(* sends its request to the URL and with the API key of the config passed  *)
(* to that very call.                                                      *)
(***************************************************************************)
C26_RequestUsesOwnConfig ==
    \A i \in Callers :
        (calls # <<>> /\ calls[i].pc \in {"fetch", "done"})
            => /\ calls[i].url
                    = <<buildBaseUrl(calls[i].config), methodPath(calls[i].op)>>
               /\ calls[i].apiKey = calls[i].config.apiKey

SucceededCalls ==
    SelectSeq(userCreate.apiCalls, LAMBDA c : c.state = "succeeded")

C23_OneCreationCallPerSubmit ==
    userCreate # <<>>
        => /\ Len(userCreate.apiCalls) = userCreate.submissions
           /\ \A k \in 1..Len(userCreate.apiCalls) :
                LET c == userCreate.apiCalls[k]
                IN  c.api = "grpc"
                        <=> /\ c.isGrpcConfigured
                            /\ \E i \in 1..Len(c.namespace) :
                                    c.namespace[i] \notin WhiteSpace
           /\ userCreate.users
                = [k \in 1..Len(SucceededCalls) |-> SucceededCalls[k].username]

\* two submissions are done, a gRPC one that succeeded and a REST one made
\* with a blank namespace while gRPC was configured
C23_Witness ==
    /\ userCreate # <<>>
    /\ Len(userCreate.apiCalls) = 2
    /\ \E k \in 1..2 :
          userCreate.apiCalls[k].api = "grpc"
              /\ userCreate.apiCalls[k].state = "succeeded"
    /\ \E k \in 1..2 :
          /\ userCreate.apiCalls[k].api = "rest"
          /\ userCreate.apiCalls[k].isGrpcConfigured
          /\ userCreate.apiCalls[k].namespace = <<9, 32>>
    /\ Len(userCreate.users) = 1

(***************************************************************************)
(* C28: when getPreAuthKeys resolves, its result contains the pre-auth     *)
(* keys of every non-empty user ID requested, each response's keys exactly *)
(* once, under every order in which the requests complete; no request is   *)
(* issued for an empty user ID, and requests are keyed by user ID, never   *)
(* by user name (unknown names are dropped).                               *)
(***************************************************************************)
\* how many times x occurs in the sequence
Occurrences(seq, x) == Cardinality({ i \in 1..Len(seq) : seq[i] = x })

AllKeys == {"key-1a", "key-1b", "key-2"}

\* the user IDs the call asks for: its arguments, or the IDs of the users
\* with the names given, or the IDs of all users
AskedIds ==
    CASE keys.call.by = "ids" -> keys.call.args
      [] keys.call.by = "names" ->
            LET known == SelectSeq(keys.call.args,
                            LAMBDA n : n \in {"ann", "bob", "eve"})
            IN  [i \in 1..Len(known) |->
                    CASE known[i] = "ann" -> "1" [] known[i] = "bob" -> "2"
                      [] OTHER -> ""]
      [] OTHER -> <<"1", "2", "">>

C28_AllKeysOnce ==
    (keys # <<>> /\ keys.pc \in {"awaitAll", "returned", "rejected"})
        => /\ \A i \in 1..Len(keys.promises) :
                keys.promises[i].userId \in {"1", "2", "9"}
           /\ \A id \in {"1", "2", "9"} :
                Cardinality({ i \in 1..Len(keys.promises) :
                                keys.promises[i].userId = id })
                    = Occurrences(AskedIds, id)
           /\ keys.pc = "returned"
                => \A k \in AllKeys :
                      Occurrences(keys.returned, k)
                        = Cardinality({ i \in 1..Len(keys.promises) :
                            Occurrences(preAuthKeysOf(keys.promises[i].userId), k) = 1 })

\* the requests for users 1 and 2 completed in the order 2, 1 and the call
\* has returned the three keys
C28_Witness ==
    /\ keys # <<>>
    /\ keys.pc = "returned"
    /\ keys.call.by = "names"
    /\ keys.returned = <<"key-2", "key-1a", "key-1b">>
    /\ Len(keys.promises) = 2 /\ keys.promises[1].userId = "1"

(***************************************************************************)
(* C29: getRoutes derives routes from the nodes endpoint only when the     *)
(* routes request failed with ApiNotFoundError (HTTP 404, which            *)
(* toApiResponse maps before any other error kind); for every other        *)
(* failure (Unauthorized, API error body, unspecified error, network       *)
(* error) it rethrows that error and issues no nodes request.              *)
(***************************************************************************)
\* the routes request was answered with HTTP 404
RoutesNotFound ==
    routes.routesReply.kind = "http" /\ routes.routesReply.status = 404

\* the routes request failed otherwise, and with which error
OtherRoutesFailure ==
    LET reply == routes.routesReply
    IN  CASE reply.kind = "network" -> "TypeError: Failed to fetch"
          [] reply.status = 404 -> "none"
          [] reply.status # 200 /\ reply.body = "Unauthorized" ->
                "ApiAuthErrorUnauthorized"
          [] reply.body = "apiError" -> "Error: message"
          [] reply.status # 200 -> "Error: Unspecified Error"
          [] reply.body # "data" -> "SyntaxError"
          [] OTHER -> "none"

C29_NodesOnlyAfterNotFound ==
    (routes # <<>> /\ routes.pc \in {"nodes", "done"})
        => /\ (\E i \in 1..Len(routes.requests) : routes.requests[i] = "nodes")
                <=> RoutesNotFound
           /\ routes.outcome.kind = "fromNodes" => RoutesNotFound
           /\ (routes.pc = "done" /\ OtherRoutesFailure # "none")
                => /\ routes.outcome = [kind |-> "thrown", error |-> OtherRoutesFailure]
                   /\ routes.requests = <<"routes">>

\* the routes request got 404 with the body Unauthorized and the routes
\* were derived from the nodes
C29_Witness ==
    /\ routes # <<>>
    /\ routes.pc = "done"
    /\ routes.routesReply = [kind |-> "http", status |-> 404, body |-> "Unauthorized"]
    /\ routes.requests = <<"routes", "nodes">>
    /\ routes.outcome.kind = "fromNodes"

(***************************************************************************)
(* C30: on the settings page, loading is true during the whole of every    *)
(* saveSettings run (until populateAll has finished) and during every gRPC *)
(* connection test, also when saveSettings is started by the               *)
(* refresh-API-key button; loading is false once all started operations    *)
(* have finished.                                                          *)
(***************************************************************************)
C30_LoadingWhileBusy ==
    page # <<>>
        => /\ (page.saves # <<>> \/ page.test = "awaiting") => page.loading
           /\ (page.saves = <<>> /\ page.test = "idle" /\ page.refresh = "idle")
                => ~page.loading

(***************************************************************************)
(* C27: testConnection always resolves with a {success, error} result,     *)
(* whatever the schema load, the fetch, the HTTP status and the response   *)
(* bytes are; and for every non-OK HTTP status the result has              *)
(* success = false.                                                        *)
(***************************************************************************)
C27_AlwaysResolves ==
    /\ <>(conn # <<>> /\ conn.pc = "resolved" /\ result.returned)
    /\ [](conn # <<>> /\ conn.pc = "resolved" /\ conn.status # 200
            => ~result.success)

====
